-------------------------------- MODULE Posts --------------------------------
(***************************************************************************)
(* Requests about the posts of the blog: the servlets that create, update, *)
(* delete and show a post (blog_servlet.cc), with BlogService and BlogDao. *)
(* Each request is a fiber.  A statement is one step of the database;      *)
(* between its statements, while the fiber waits for the socket, those of  *)
(* other requests are executed.  No transaction spans two of them.         *)
(*                                                                         *)
(* A statement may fail, because the pool had no connection or the session *)
(* is lost, and it may be executed although its result does not arrive:    *)
(* see Statements.                                                         *)
(***************************************************************************)
EXTENDS Statements

CONSTANTS
  Requests,
  Users,
  Posts,       \* the ids the table may come to hold
  NoRequest,
  NoRow        \* no such row; as the result of findById(), Blog() with id 0

\* model::Blog::Status; a client may send another number, which is treated
\* like a draft.
Statuses == {"draft", "published", "deleted"}

\* A row of the table blogs.  text stands for title, content and summary, and
\* is named by the request that wrote them; timed is published_at IS NOT NULL.
Rows == [author : Users, status : Statuses, text : Requests \cup {NoRequest},
         timed : BOOLEAN, views : Nat]

\* What a request asks for.
Orders ==
  [kind : {"create"}, user : Users, status : Statuses]
  \cup [kind : {"update"}, post : Posts, user : Users, status : Statuses]
  \cup [kind : {"delete", "publish"}, post : Posts, user : Users]
  \cup [kind : {"detail"}, post : Posts]

ASSUME PostsAssumption ==
  NoRequest \notin Requests \cup Orders /\ NoRow \notin Rows

VARIABLES
  rows,      \* the table
  pc,        \* which statement of a request is next
  order,     \* what each request asks for, once it has begun
  seen,      \* its local variable existing_blog
  answer,    \* what it was answered
  counted    \* history: how often each post was counted as viewed

vars == <<rows, pc, order, seen, answer, counted>>

Labels == {"new", "check", "find", "write", "done"}

\* The server starts on a table of earlier days.
OldRows == [author : Users, status : Statuses, text : {NoRequest},
            timed : BOOLEAN, views : {0}]

Init ==
  /\ rows \in [Posts -> OldRows \cup {NoRow}]
  /\ pc = [r \in Requests |-> "new"]
  /\ order = [r \in Requests |-> NoRequest]
  /\ seen = [r \in Requests |-> NoRow]
  /\ answer = [r \in Requests |-> "none"]
  /\ counted = [p \in Posts |-> 0]

Exists(p) == rows[p] # NoRow /\ rows[p].status # "deleted"
Target(r) == order[r].post

Goto(r, from, to) ==
  /\ pc[r] = from
  /\ pc' = [pc EXCEPT ![r] = to]

Answers(r, from, how) ==
  /\ Goto(r, from, "done")
  /\ answer' = [answer EXCEPT ![r] = how]

\* BlogDao::findById(): what it may return.
Found(p) == IF Exists(p) THEN {NoRow, rows[p]} ELSE {NoRow}

-----------------------------------------------------------------------------
(* The servlets, up to the statement that writes.                          *)

\* A well formed request arrives, with a valid token where one is needed.
Begin(r) ==
  /\ \E o \in Orders :
       /\ order' = [order EXCEPT ![r] = o]
       /\ Goto(r, "new", IF o.kind = "create" THEN "write" ELSE "check")
  /\ UNCHANGED <<rows, seen, answer, counted>>

\* Faulty: whoever asks may change the post.
MayChangeAnyone(r, x) == TRUE

\* Everybody may see a post, its author may change it.
May(r, x) == order[r].kind # "detail" => x.author = order[r].user

\* The first findById(): getBlog() or validateOwnership().
Check(r) ==
  /\ pc[r] = "check"
  /\ \E x \in Found(Target(r)) :
       \/ /\ x = NoRow
          /\ Answers(r, "check", "notfound")
          /\ UNCHANGED seen
       \/ /\ x # NoRow /\ ~May(r, x)
          /\ Answers(r, "check", "refused")
          /\ UNCHANGED seen
       \/ /\ x # NoRow /\ May(r, x)
          /\ Goto(r, "check", IF order[r].kind = "update" THEN "find" ELSE "write")
          /\ seen' = [seen EXCEPT ![r] = x]
          /\ UNCHANGED answer
  /\ UNCHANGED <<rows, order, counted>>

\* updateBlog() reads the post a second time.
Find(r) ==
  /\ pc[r] = "find"
  /\ \E x \in Found(Target(r)) :
       \/ /\ x = NoRow
          /\ Answers(r, "find", "failed")
          /\ UNCHANGED seen
       \/ /\ x # NoRow
          /\ Goto(r, "find", "write")
          /\ seen' = [seen EXCEPT ![r] = x]
          /\ UNCHANGED answer
  /\ UNCHANGED <<rows, order, counted>>

-----------------------------------------------------------------------------
(* The statements that write, and the answer.                              *)

Writes(r, kind) == pc[r] = "write" /\ order[r].kind = kind

\* UPDATE ... WHERE id = ?, of whatever state the row is in by now.  It may
\* change nothing, when the row has these values already.  What the request is
\* answered depends on the value of executeUpdate() alone.
Alter(r, row) ==
  /\ \E n \in {0, 1} : \E o \in UpdateOutcomes(n) :
       /\ n = 0 => row = rows[Target(r)]
       /\ rows' = IF o.ran THEN [rows EXCEPT ![Target(r)] = row] ELSE rows
       /\ Answers(r, "write", IF UpdateSucceeded(o) THEN "ok" ELSE "failed")
  /\ UNCHANGED <<order, seen, counted>>

\* BlogDao::create(); the servlet answers 200 without looking at the result.
Create(r) ==
  /\ Writes(r, "create")
  /\ \/ \E p \in {q \in Posts : rows[q] = NoRow} : \E timed \in BOOLEAN :
          /\ order[r].status = "published" => timed
          /\ rows' = [rows EXCEPT ![p] =
                        [author |-> order[r].user, status |-> order[r].status,
                         text |-> r, timed |-> timed, views |-> 0]]
     \/ UNCHANGED rows
  /\ Answers(r, "write", "ok")
  /\ UNCHANGED <<order, seen, counted>>

\* Faulty: every column is written, as it was read.
UpdateAll(r) ==
  /\ Writes(r, "update")
  /\ Alter(r, [seen[r] EXCEPT !.text = r, !.status = order[r].status])

\* BlogDao::update(), which leaves published_at, too, as it is.
Update(r) ==
  /\ Writes(r, "update")
  /\ Alter(r, [rows[Target(r)] EXCEPT !.text = r, !.status = order[r].status])

\* BlogDao::remove(), by default a soft deletion.
Delete(r) ==
  /\ Writes(r, "delete")
  /\ Alter(r, [rows[Target(r)] EXCEPT !.status = "deleted"])

\* BlogDao::publishBlog().
Publish(r) ==
  /\ Writes(r, "publish")
  /\ Alter(r, [rows[Target(r)] EXCEPT !.status = "published", !.timed = TRUE])

\* view_count = view_count + 1
Viewed(row) == [row EXCEPT !.views = @ + 1]

\* BlogDao::increaseViewCount(); the servlet answers what it had read in any
\* case.
CountView(r) ==
  /\ Writes(r, "detail")
  /\ \/ /\ rows' = [rows EXCEPT ![Target(r)] = Viewed(@)]
        /\ counted' = [counted EXCEPT ![Target(r)] = @ + 1]
     \/ UNCHANGED <<rows, counted>>
  /\ Answers(r, "write", "ok")
  /\ UNCHANGED <<order, seen>>

-----------------------------------------------------------------------------
Request(r) ==
  \/ Begin(r) \/ Check(r) \/ Find(r)
  \/ Create(r) \/ Update(r) \/ Delete(r) \/ Publish(r) \/ CountView(r)

Next ==
  \/ \E r \in Requests : Request(r)
  \/ (\A r \in Requests : pc[r] = "done") /\ UNCHANGED vars

Spec == Init /\ [][Next]_vars
-----------------------------------------------------------------------------
(* Properties.                                                             *)

TypeOK ==
  /\ rows \in [Posts -> Rows \cup {NoRow}]
  /\ pc \in [Requests -> Labels]
  /\ order \in [Requests -> Orders \cup {NoRequest}]
  /\ seen \in [Requests -> Rows \cup {NoRow}]
  /\ answer \in [Requests -> {"none", "ok", "notfound", "refused", "failed"}]
  /\ counted \in [Posts -> Nat]
  /\ \A r \in Requests :     \* nothing is changed that was not found
       pc[r] \in {"find", "write"} => order[r].kind = "create" \/ seen[r] # NoRow

\* Only its author changes a post, although the statement that writes does not
\* ask whose it is: what the request checked some statements before still holds.
OnlyAuthorChanges ==
  [][\A p \in Posts :
       rows[p] # NoRow =>
         \/ rows'[p] = rows[p]
         \/ rows'[p] = Viewed(rows[p])
         \/ \E r \in Requests :
              /\ pc[r] = "write" /\ pc'[r] = "done"
              /\ order[r].kind \notin {"create", "detail"} /\ Target(r) = p
              /\ order[r].user = rows[p].author]_vars

\* No view is lost: an update that read the post before it was shown again
\* does not write the count it read back (blog_dao.cc:142, 385).
ViewsCounted ==
  \A p \in Posts : rows[p] # NoRow => rows[p].views = counted[p]

\* A deleted post comes back only through an update, or a publication, whose
\* request had read it before it was deleted; a request that begins later
\* does not find it (blog_dao.cc:108).
DeletedStays ==
  [][\A p \in Posts :
       /\ rows[p] # NoRow /\ rows[p].status = "deleted"
       /\ rows'[p].status # "deleted"
       => \E r \in Requests :
            /\ pc[r] = "write" /\ pc'[r] = "done"
            /\ Target(r) = p
            /\ seen[r].status # "deleted"]_vars

\* A post that is published without a time of publication was published by an
\* update: creation and publishBlog() set it, updateBlog() means to
\* (blog_service.cc:79-82) but the statement has no such column.
UntimedByUpdate ==
  \A p \in Posts :
    rows[p] # NoRow /\ rows[p].status = "published" /\ ~rows[p].timed
      => \/ rows[p].text = NoRequest
         \/ order[rows[p].text].kind = "update"
=============================================================================
