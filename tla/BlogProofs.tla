----------------------------- MODULE BlogProofs -----------------------------
(***************************************************************************)
(* What holds of the posts, the users, the lists of posts and the tokens   *)
(* of the blog for any number of requests and callers, posts, ids, names.  *)
(***************************************************************************)
EXTENDS Posts, Accounts, Lists, Tokens, SequenceLemmas, TLAPS

-----------------------------------------------------------------------------
(* Posts: the inductive invariant.                                         *)

\* What a request found when it checked still holds while it goes on: rows do
\* not disappear, and none changes its author.
Checked ==
  \A r \in Requests :
    /\ pc[r] # "new" => order[r] \in Orders
    /\ pc[r] = "check" => order[r].kind # "create"
    /\ pc[r] = "find" => order[r].kind = "update"
    /\ pc[r] \in {"find", "write"} /\ order[r].kind # "create"
         => /\ rows[Target(r)] # NoRow
            /\ order[r].kind # "detail" => rows[Target(r)].author = order[r].user
    /\ seen[r] # NoRow => seen[r].status # "deleted"

\* Who wrote a row has begun, so that what it was asked for is settled; a row
\* that does not exist has no views.
Written ==
  \A p \in Posts :
    /\ rows[p] = NoRow => counted[p] = 0
    /\ rows[p] # NoRow /\ rows[p].text # NoRequest => pc[rows[p].text] # "new"

PostsIInv == TypeOK /\ Checked /\ Written /\ ViewsCounted /\ UntimedByUpdate

-----------------------------------------------------------------------------
\* Which fields an order has.
LEMMA OrderFields ==
  ASSUME NEW o \in Orders
  PROVE  /\ o.kind \in {"create", "update", "delete", "publish", "detail"}
         /\ o.kind # "create" => o.post \in Posts
         /\ o.kind # "detail" => o.user \in Users
         /\ o.kind \in {"create", "update"} => o.status \in Statuses
  <1>1. CASE o \in [kind : {"create"}, user : Users, status : Statuses]
    BY <1>1
  <1>2. CASE o \in [kind : {"update"}, post : Posts, user : Users, status : Statuses]
    BY <1>2
  <1>3. CASE o \in [kind : {"delete", "publish"}, post : Posts, user : Users]
    BY <1>3
  <1>4. CASE o \in [kind : {"detail"}, post : Posts]
    BY <1>4
  <1> QED
    BY <1>1, <1>2, <1>3, <1>4 DEF Orders

LEMMA PostsInitIInv == Init => PostsIInv
  <1> SUFFICES ASSUME Init PROVE PostsIInv
    OBVIOUS
  <1>1. \A x \in OldRows : x \in Rows /\ x.text = NoRequest /\ x.views = 0
    BY DEF OldRows, Rows
  <1>2. TypeOK
    BY <1>1 DEF Init, TypeOK, Labels
  <1>3. Checked /\ Written /\ ViewsCounted /\ UntimedByUpdate
    BY <1>1 DEF Init, Checked, Written, ViewsCounted, UntimedByUpdate
  <1> QED
    BY <1>2, <1>3 DEF PostsIInv

-----------------------------------------------------------------------------
(* Posts: steps that only read.                                            *)

LEMMA BeginIInv ==
  ASSUME PostsIInv, NEW r \in Requests, Begin(r)
  PROVE  PostsIInv'
  <1>1. PICK o \in Orders :
          /\ order' = [order EXCEPT ![r] = o]
          /\ pc[r] = "new"
          /\ pc' = [pc EXCEPT ![r] = IF o.kind = "create" THEN "write" ELSE "check"]
    BY DEF Begin, Goto
  <1>2. UNCHANGED <<rows, seen, answer, counted>>
    BY DEF Begin
  <1>3. TypeOK'
    BY <1>1, <1>2 DEF PostsIInv, TypeOK, Labels
  <1>4. Checked'
    BY <1>1, <1>2 DEF PostsIInv, TypeOK, Checked, Target
  <1>5. Written' /\ ViewsCounted'
    BY <1>1, <1>2 DEF PostsIInv, TypeOK, Written, ViewsCounted
  <1>6. UntimedByUpdate'
    BY <1>1, <1>2 DEF PostsIInv, TypeOK, Written, UntimedByUpdate, Rows
  <1> QED
    BY <1>3, <1>4, <1>5, <1>6 DEF PostsIInv

\* What findById() returns is the row as it is, which is not deleted.
LEMMA FoundRow ==
  ASSUME NEW p, NEW x \in Found(p), x # NoRow
  PROVE  x = rows[p] /\ rows[p].status # "deleted"
  BY DEF Found, Exists

\* A step that reads leaves the table and what was written as it is.
LEMMA ReadIInv ==
  ASSUME PostsIInv, NEW r \in Requests, NEW to \in Labels \ {"new"},
         pc' = [pc EXCEPT ![r] = to], pc[r] # "new",
         UNCHANGED <<rows, order, counted>>
  PROVE  Written' /\ ViewsCounted' /\ UntimedByUpdate'
  <1>1. Written'
    BY DEF PostsIInv, TypeOK, Written, Rows
  <1>2. ViewsCounted' /\ UntimedByUpdate'
    BY DEF PostsIInv, ViewsCounted, UntimedByUpdate
  <1> QED
    BY <1>1, <1>2

LEMMA CheckIInv ==
  ASSUME PostsIInv, NEW r \in Requests, Check(r)
  PROVE  PostsIInv'
  <1> DEFINE next == IF order[r].kind = "update" THEN "find" ELSE "write"
  <1>1. pc[r] = "check" /\ UNCHANGED <<rows, order, counted>>
    BY DEF Check
  <1>2. order[r] \in Orders /\ order[r].kind # "create" /\ Target(r) \in Posts
    BY <1>1, OrderFields DEF PostsIInv, Checked, Target
  <1>3. CASE /\ pc' = [pc EXCEPT ![r] = "done"]
             /\ answer' \in {[answer EXCEPT ![r] = a] : a \in {"notfound", "refused"}}
             /\ UNCHANGED seen
    <2>1. TypeOK' /\ Checked'
      BY <1>1, <1>3 DEF PostsIInv, TypeOK, Labels, Checked, Target
    <2> QED
      BY <1>1, <1>3, <2>1, ReadIInv DEF PostsIInv, Labels
  <1>4. CASE \E x \in Found(Target(r)) :
               /\ x # NoRow /\ May(r, x)
               /\ pc' = [pc EXCEPT ![r] = next]
               /\ seen' = [seen EXCEPT ![r] = x]
               /\ UNCHANGED answer
    <2>1. PICK x \in Found(Target(r)) :
               /\ x # NoRow /\ May(r, x)
               /\ pc' = [pc EXCEPT ![r] = next]
               /\ seen' = [seen EXCEPT ![r] = x]
               /\ UNCHANGED answer
      BY <1>4
    <2>2. x = rows[Target(r)] /\ x.status # "deleted" /\ x \in Rows
      BY <2>1, <1>2, FoundRow DEF PostsIInv, TypeOK
    <2>3. TypeOK'
      BY <1>1, <2>1, <2>2 DEF PostsIInv, TypeOK, Labels
    <2>4. Checked'
      BY <1>1, <1>2, <2>1, <2>2 DEF PostsIInv, TypeOK, Checked, Target, May
    <2> QED
      BY <1>1, <2>1, <2>3, <2>4, ReadIInv DEF PostsIInv, Labels
  <1> QED
    BY <1>1, <1>3, <1>4 DEF Check, Answers, Goto

LEMMA FindIInv ==
  ASSUME PostsIInv, NEW r \in Requests, Find(r)
  PROVE  PostsIInv'
  <1>1. pc[r] = "find" /\ UNCHANGED <<rows, order, counted>>
    BY DEF Find
  <1>2. order[r] \in Orders /\ order[r].kind = "update" /\ Target(r) \in Posts
    BY <1>1, OrderFields DEF PostsIInv, Checked, Target
  <1>3. CASE /\ pc' = [pc EXCEPT ![r] = "done"]
             /\ answer' = [answer EXCEPT ![r] = "failed"]
             /\ UNCHANGED seen
    <2>1. TypeOK' /\ Checked'
      BY <1>1, <1>3 DEF PostsIInv, TypeOK, Labels, Checked, Target
    <2> QED
      BY <1>1, <1>3, <2>1, ReadIInv DEF PostsIInv, Labels
  <1>4. CASE \E x \in Found(Target(r)) :
               /\ x # NoRow
               /\ pc' = [pc EXCEPT ![r] = "write"]
               /\ seen' = [seen EXCEPT ![r] = x]
               /\ UNCHANGED answer
    <2>1. PICK x \in Found(Target(r)) :
               /\ x # NoRow
               /\ pc' = [pc EXCEPT ![r] = "write"]
               /\ seen' = [seen EXCEPT ![r] = x]
               /\ UNCHANGED answer
      BY <1>4
    <2>2. x = rows[Target(r)] /\ x.status # "deleted" /\ x \in Rows
      BY <2>1, <1>2, FoundRow DEF PostsIInv, TypeOK
    <2>3. TypeOK'
      BY <1>1, <2>1, <2>2 DEF PostsIInv, TypeOK, Labels
    <2>4. Checked'
      BY <1>1, <1>2, <2>1, <2>2 DEF PostsIInv, TypeOK, Checked, Target
    <2> QED
      BY <1>1, <2>1, <2>3, <2>4, ReadIInv DEF PostsIInv, Labels
  <1> QED
    BY <1>1, <1>3, <1>4 DEF Find, Answers, Goto

-----------------------------------------------------------------------------
(* Posts: steps that write.                                                *)

\* A request that ends without having written.
LEMMA EndIInv ==
  ASSUME PostsIInv, NEW r \in Requests, NEW a \in {"ok", "failed"},
         Answers(r, "write", a), UNCHANGED <<rows, order, seen, counted>>
  PROVE  PostsIInv'
  <1>1. pc[r] = "write" /\ pc' = [pc EXCEPT ![r] = "done"]
        /\ answer' = [answer EXCEPT ![r] = a]
    BY DEF Answers, Goto
  <1>2. TypeOK' /\ Checked'
    BY <1>1 DEF PostsIInv, TypeOK, Labels, Checked, Target
  <1> QED
    BY <1>1, <1>2, ReadIInv DEF PostsIInv, Labels

\* A request that ends after it has put row in the place of post p.
LEMMA WriteIInv ==
  ASSUME PostsIInv, NEW r \in Requests, NEW a \in {"ok", "failed"},
         Answers(r, "write", a), UNCHANGED <<order, seen>>,
         NEW p \in Posts, NEW row \in Rows, NEW n \in Nat,
         rows' = [rows EXCEPT ![p] = row],
         counted' = [counted EXCEPT ![p] = n],
         row.views = n,
         rows[p] # NoRow => row.author = rows[p].author,
         row.text # NoRequest => row.text = r \/ pc[row.text] # "new",
         row.status = "published" /\ ~row.timed /\ row.text # NoRequest
           => order[row.text].kind = "update"
  PROVE  PostsIInv'
  <1>1. pc[r] = "write" /\ pc' = [pc EXCEPT ![r] = "done"]
        /\ answer' = [answer EXCEPT ![r] = a]
    BY DEF Answers, Goto
  <1>2. row # NoRow /\ row.text \in Requests \cup {NoRequest}
    BY PostsAssumption DEF Rows
  <1>3. TypeOK'
    BY <1>1 DEF PostsIInv, TypeOK, Labels
  <1>4. Checked'
    BY <1>1, <1>2 DEF PostsIInv, TypeOK, Checked, Target
  <1>5. Written'
    <2> SUFFICES ASSUME NEW q \in Posts
                 PROVE  /\ rows'[q] = NoRow => counted'[q] = 0
                        /\ rows'[q] # NoRow /\ rows'[q].text # NoRequest
                             => pc'[rows'[q].text] # "new"
      BY DEF Written
    <2>1. CASE q = p
      BY <1>1, <1>2, <2>1 DEF PostsIInv, TypeOK
    <2>2. CASE q # p
      <3>1. rows'[q] = rows[q] /\ counted'[q] = counted[q]
        BY <2>2 DEF PostsIInv, TypeOK
      <3>2. rows[q] # NoRow => rows[q].text \in Requests \cup {NoRequest}
        BY DEF PostsIInv, TypeOK, Rows
      <3> QED
        BY <1>1, <3>1, <3>2 DEF PostsIInv, TypeOK, Written
    <2> QED
      BY <2>1, <2>2
  <1>6. ViewsCounted'
    BY DEF PostsIInv, TypeOK, ViewsCounted
  <1>7. UntimedByUpdate'
    BY DEF PostsIInv, TypeOK, UntimedByUpdate
  <1> QED
    BY <1>3, <1>4, <1>5, <1>6, <1>7 DEF PostsIInv

\* A request that writes to a post, and is not a creation, has found it.
LEMMA WritesFound ==
  ASSUME PostsIInv, NEW r \in Requests, pc[r] = "write", order[r].kind # "create"
  PROVE  /\ order[r] \in Orders /\ Target(r) \in Posts
         /\ rows[Target(r)] \in Rows
         /\ order[r].kind # "detail" => rows[Target(r)].author = order[r].user
         /\ seen[r].status # "deleted"
         /\ rows[Target(r)].views = counted[Target(r)]
         /\ rows[Target(r)].text # NoRequest => pc[rows[Target(r)].text] # "new"
         /\ LET row == rows[Target(r)]
            IN  row.status = "published" /\ ~row.timed /\ row.text # NoRequest
                  => order[row.text].kind = "update"
  <1>1. order[r] \in Orders /\ Target(r) \in Posts
    BY OrderFields DEF PostsIInv, Checked, Target
  <1>2. rows[Target(r)] # NoRow /\ seen[r] # NoRow
    BY DEF PostsIInv, TypeOK, Checked
  <1> QED
    BY <1>1, <1>2 DEF PostsIInv, TypeOK, Checked, Written, ViewsCounted, UntimedByUpdate

\* The three statements that change the author's post.
LEMMA AlterIInv ==
  ASSUME PostsIInv, NEW r \in Requests, pc[r] = "write", order[r].kind # "create",
         NEW row \in Rows, Alter(r, row),
         row.author = rows[Target(r)].author,
         row.views = rows[Target(r)].views,
         row.text \in {r, rows[Target(r)].text},
         row.status = "published" /\ ~row.timed /\ row.text # NoRequest
           => order[row.text].kind = "update"
  PROVE  PostsIInv'
  <1>1. PICK a \in {"ok", "failed"} : Answers(r, "write", a)
    BY DEF Alter
  <1>2. CASE rows' = [rows EXCEPT ![Target(r)] = row]
    <2>1. UNCHANGED <<order, seen, counted>>
      BY DEF Alter
    <2>2. counted[Target(r)] \in Nat
          /\ counted' = [counted EXCEPT ![Target(r)] = counted[Target(r)]]
      BY <2>1, WritesFound DEF PostsIInv, TypeOK
    <2>3. /\ Target(r) \in Posts
          /\ row.views = counted[Target(r)]
          /\ row.text # NoRequest => row.text = r \/ pc[row.text] # "new"
      BY WritesFound
    <2> QED
      BY <1>1, <1>2, <2>1, <2>2, <2>3, WriteIInv
  <1>3. CASE UNCHANGED rows
    BY <1>1, <1>3, EndIInv DEF Alter
  <1> QED
    BY <1>2, <1>3 DEF Alter

LEMMA CreateIInv ==
  ASSUME PostsIInv, NEW r \in Requests, Create(r)
  PROVE  PostsIInv'
  <1>1. /\ pc[r] = "write" /\ order[r].kind = "create"
        /\ Answers(r, "write", "ok") /\ UNCHANGED <<order, seen, counted>>
    BY DEF Create, Writes
  <1>2. order[r] \in Orders /\ order[r].user \in Users /\ order[r].status \in Statuses
    BY <1>1, OrderFields DEF PostsIInv, Checked
  <1>3. CASE UNCHANGED rows
    BY <1>1, <1>3, EndIInv
  <1>4. CASE \E p \in {q \in Posts : rows[q] = NoRow} : \E timed \in BOOLEAN :
               /\ order[r].status = "published" => timed
               /\ rows' = [rows EXCEPT ![p] =
                             [author |-> order[r].user, status |-> order[r].status,
                              text |-> r, timed |-> timed, views |-> 0]]
    <2>1. PICK p \in Posts, timed \in BOOLEAN :
            /\ rows[p] = NoRow
            /\ order[r].status = "published" => timed
            /\ rows' = [rows EXCEPT ![p] =
                          [author |-> order[r].user, status |-> order[r].status,
                           text |-> r, timed |-> timed, views |-> 0]]
      BY <1>4
    <2> DEFINE row == [author |-> order[r].user, status |-> order[r].status,
                       text |-> r, timed |-> timed, views |-> 0]
    <2>2. /\ row \in Rows /\ row.views = 0 /\ row.text = r
          /\ row.status = order[r].status /\ row.timed = timed
      BY <1>2 DEF Rows
    <2>3. rows' = [rows EXCEPT ![p] = row]
      BY <2>1
    <2>4. counted' = [counted EXCEPT ![p] = 0]
      BY <1>1, <2>1 DEF PostsIInv, TypeOK, Written
    <2>5. ~(row.status = "published" /\ ~row.timed)
      BY <2>1, <2>2
    <2>6. p \in Posts /\ rows[p] = NoRow
      BY <2>1
    <2> DEFINE n == 0
    <2>7. /\ n \in Nat /\ row.views = n /\ counted' = [counted EXCEPT ![p] = n]
          /\ row \in Rows /\ row.text = r
      BY <2>2, <2>4
    <2> HIDE DEF row, n
    <2> QED
      BY <1>1, <2>3, <2>5, <2>6, <2>7, WriteIInv
  <1> QED
    BY <1>3, <1>4 DEF Create

LEMMA UpdateIInv ==
  ASSUME PostsIInv, NEW r \in Requests, Update(r)
  PROVE  PostsIInv'
  <1> DEFINE old == rows[Target(r)]
             row == [old EXCEPT !.text = r, !.status = order[r].status]
  <1>1. pc[r] = "write" /\ order[r].kind = "update" /\ Alter(r, row)
    BY DEF Update, Writes
  <1>2. old \in Rows /\ order[r].status \in Statuses
    BY <1>1, WritesFound, OrderFields
  <1>3. row \in Rows /\ row.author = old.author /\ row.views = old.views
        /\ row.text = r
    BY <1>2 DEF Rows
  <1> HIDE DEF row
  <1> QED
    BY <1>1, <1>3, AlterIInv

LEMMA DeleteIInv ==
  ASSUME PostsIInv, NEW r \in Requests, Delete(r)
  PROVE  PostsIInv'
  <1> DEFINE old == rows[Target(r)]
             row == [old EXCEPT !.status = "deleted"]
  <1>1. pc[r] = "write" /\ order[r].kind = "delete" /\ Alter(r, row)
    BY DEF Delete, Writes
  <1>2. old \in Rows
    BY <1>1, WritesFound
  <1>3. row \in Rows /\ row.author = old.author /\ row.views = old.views
        /\ row.text = old.text /\ row.status = "deleted"
    BY <1>2 DEF Rows, Statuses
  <1> HIDE DEF row
  <1> QED
    BY <1>1, <1>3, AlterIInv

LEMMA PublishIInv ==
  ASSUME PostsIInv, NEW r \in Requests, Publish(r)
  PROVE  PostsIInv'
  <1> DEFINE old == rows[Target(r)]
             row == [old EXCEPT !.status = "published", !.timed = TRUE]
  <1>1. pc[r] = "write" /\ order[r].kind = "publish" /\ Alter(r, row)
    BY DEF Publish, Writes
  <1>2. old \in Rows
    BY <1>1, WritesFound
  <1>3. row \in Rows /\ row.author = old.author /\ row.views = old.views
        /\ row.text = old.text /\ row.timed
    BY <1>2 DEF Rows, Statuses
  <1> HIDE DEF row
  <1> QED
    BY <1>1, <1>3, AlterIInv

LEMMA CountViewIInv ==
  ASSUME PostsIInv, NEW r \in Requests, CountView(r)
  PROVE  PostsIInv'
  <1> DEFINE p   == Target(r)
             old == rows[p]
             row == Viewed(old)
             n   == counted[p] + 1
  <1>1. /\ pc[r] = "write" /\ order[r].kind = "detail"
        /\ Answers(r, "write", "ok") /\ UNCHANGED <<order, seen>>
    BY DEF CountView, Writes
  <1>2. CASE UNCHANGED <<rows, counted>>
    BY <1>1, <1>2, EndIInv
  <1>3. CASE /\ rows' = [rows EXCEPT ![p] = Viewed(@)]
             /\ counted' = [counted EXCEPT ![p] = @ + 1]
    <2>1. p \in Posts /\ old \in Rows /\ old.views = counted[p]
      BY <1>1, WritesFound
    <2>2. /\ row \in Rows /\ row.author = old.author /\ row.status = old.status
          /\ row.text = old.text /\ row.timed = old.timed
          /\ row.views = n /\ n \in Nat
      BY <2>1 DEF Rows, Viewed
    <2>3. rows' = [rows EXCEPT ![p] = row] /\ counted' = [counted EXCEPT ![p] = n]
      BY <1>3
    <2>4. /\ old.text # NoRequest => pc[old.text] # "new"
          /\ old.status = "published" /\ ~old.timed /\ old.text # NoRequest
               => order[old.text].kind = "update"
      BY <1>1, WritesFound
    <2> HIDE DEF p, row, old, n
    <2>5. rows[p] # NoRow => row.author = rows[p].author
      BY <2>2 DEF old
    <2> QED
      BY <1>1, <2>1, <2>2, <2>3, <2>4, <2>5, WriteIInv
  <1> QED
    BY <1>2, <1>3 DEF CountView

LEMMA PostsNextIInv == PostsIInv /\ [Next]_vars => PostsIInv'
  <1> SUFFICES ASSUME PostsIInv, [Next]_vars PROVE PostsIInv'
    OBVIOUS
  <1>1. CASE UNCHANGED vars
    BY <1>1 DEF vars, PostsIInv, TypeOK, Checked, Target, Written, ViewsCounted,
                UntimedByUpdate
  <1>2. CASE \E r \in Requests : Request(r)
    <2>1. PICK r \in Requests : Request(r)
      BY <1>2
    <2> QED
      BY <2>1, BeginIInv, CheckIInv, FindIInv, CreateIInv, UpdateIInv,
         DeleteIInv, PublishIInv, CountViewIInv DEF Request
  <1> QED
    BY <1>1, <1>2 DEF Next

LEMMA PostsInvariant == Spec => []PostsIInv
  BY PostsInitIInv, PostsNextIInv, PTL DEF Spec

-----------------------------------------------------------------------------
(* Posts: what a step changes in the table.                                *)

\* A step of the table is made by one request, which ends with it.  It creates
\* a post, or changes the one it found; other posts stay.
LEMMA StepRows ==
  ASSUME PostsIInv, NEW p \in Posts, rows[p] # NoRow, [Next]_vars, rows'[p] # rows[p]
  PROVE  \E r \in Requests :
           /\ pc[r] = "write" /\ pc'[r] = "done"
           /\ order[r].kind # "create" /\ Target(r) = p
           /\ order[r].kind = "detail" => rows'[p] = Viewed(rows[p])
  <1>1. PICK r \in Requests : Request(r)
    BY DEF Next, vars
  <1>2. Create(r) \/ Update(r) \/ Delete(r) \/ Publish(r) \/ CountView(r)
    BY <1>1 DEF Request, Begin, Check, Find
  <1>3. pc[r] = "write" /\ pc'[r] = "done"
    <2>1. pc[r] = "write" /\ pc' = [pc EXCEPT ![r] = "done"]
      BY <1>2 DEF Create, Update, Delete, Publish, CountView, Alter, Answers, Goto
    <2> QED
      BY <2>1 DEF PostsIInv, TypeOK
  <1>4. ~Create(r)
    BY DEF PostsIInv, TypeOK, Create
  <1>5. order[r].kind \in {"update", "delete", "publish", "detail"}
    BY <1>2, <1>4 DEF Update, Delete, Publish, CountView, Writes
  <1>6. \E row : rows' = [rows EXCEPT ![Target(r)] = row]
    BY <1>2, <1>4 DEF Update, Delete, Publish, CountView, Alter
  <1>7. Target(r) = p
    BY <1>6 DEF PostsIInv, TypeOK
  <1>8. order[r].kind = "detail" => rows'[p] = Viewed(rows[p])
    <2> SUFFICES ASSUME order[r].kind = "detail"
                 PROVE  rows'[p] = Viewed(rows[p])
      OBVIOUS
    <2>1. CountView(r)
      BY <1>2, <1>4 DEF Update, Delete, Publish, Writes
    <2>2. rows' = [rows EXCEPT ![p] = Viewed(@)]
      BY <2>1, <1>7 DEF CountView
    <2> QED
      BY <2>2 DEF PostsIInv, TypeOK
  <1> QED
    BY <1>3, <1>5, <1>7, <1>8

-----------------------------------------------------------------------------
(* Posts: the theorems.                                                    *)

\* Types, and that a request which is to write has found the post.
THEOREM PostsTypeCorrect == Spec => []TypeOK
  <1>1. PostsIInv => TypeOK
    BY DEF PostsIInv
  <1> QED
    BY <1>1, PostsInvariant, PTL

\* The count of a post is the number of its views, however updates and views
\* are interleaved (blog_dao.cc:142, 385).
THEOREM ViewsCountedAlways == Spec => []ViewsCounted
  <1>1. PostsIInv => ViewsCounted
    BY DEF PostsIInv
  <1> QED
    BY <1>1, PostsInvariant, PTL

\* Only an update makes a published post without a time (blog_dao.cc:142).
THEOREM UntimedByUpdateAlways == Spec => []UntimedByUpdate
  <1>1. PostsIInv => UntimedByUpdate
    BY DEF PostsIInv
  <1> QED
    BY <1>1, PostsInvariant, PTL

\* The statements that write are only reached by the author of the post,
\* which validateOwnership() checked before (blog_service.cc:73).
THEOREM OnlyAuthorChangesAlways == Spec => OnlyAuthorChanges
  <1>1. ASSUME PostsIInv, [Next]_vars
        PROVE  [\A p \in Posts :
                  rows[p] # NoRow =>
                    \/ rows'[p] = rows[p]
                    \/ rows'[p] = Viewed(rows[p])
                    \/ \E r \in Requests :
                         /\ pc[r] = "write" /\ pc'[r] = "done"
                         /\ order[r].kind \notin {"create", "detail"} /\ Target(r) = p
                         /\ order[r].user = rows[p].author]_vars
    <2> SUFFICES ASSUME NEW p \in Posts, rows[p] # NoRow, rows'[p] # rows[p],
                        rows'[p] # Viewed(rows[p])
                 PROVE  \E r \in Requests :
                          /\ pc[r] = "write" /\ pc'[r] = "done"
                          /\ order[r].kind \notin {"create", "detail"} /\ Target(r) = p
                          /\ order[r].user = rows[p].author
      OBVIOUS
    <2>1. PICK r \in Requests :
            /\ pc[r] = "write" /\ pc'[r] = "done"
            /\ order[r].kind # "create" /\ Target(r) = p
            /\ order[r].kind # "detail"
      BY <1>1, StepRows
    <2> QED
      BY <1>1, <2>1, WritesFound
  <1> QED
    BY <1>1, PostsInvariant, PTL DEF Spec, OnlyAuthorChanges

\* What brings a deleted post back is a request that read it before
\* (blog_dao.cc:108, 142).
THEOREM DeletedStaysAlways == Spec => DeletedStays
  <1>1. ASSUME PostsIInv, [Next]_vars
        PROVE  [\A p \in Posts :
                  /\ rows[p] # NoRow /\ rows[p].status = "deleted"
                  /\ rows'[p].status # "deleted"
                  => \E r \in Requests :
                       /\ pc[r] = "write" /\ pc'[r] = "done"
                       /\ Target(r) = p
                       /\ seen[r].status # "deleted"]_vars
    <2> SUFFICES ASSUME NEW p \in Posts, rows[p] # NoRow,
                        rows[p].status = "deleted", rows'[p].status # "deleted"
                 PROVE  \E r \in Requests :
                          /\ pc[r] = "write" /\ pc'[r] = "done"
                          /\ Target(r) = p
                          /\ seen[r].status # "deleted"
      OBVIOUS
    <2>1. PICK r \in Requests :
            /\ pc[r] = "write" /\ pc'[r] = "done"
            /\ order[r].kind # "create" /\ Target(r) = p
      BY <1>1, StepRows
    <2> QED
      BY <1>1, <2>1, WritesFound
  <1> QED
    BY <1>1, PostsInvariant, PTL DEF Spec, DeletedStays

-----------------------------------------------------------------------------
(* Users: the inductive invariant.                                         *)

AccountsTypeOK ==
  /\ users \in [Ids -> UserRows \cup {Nobody, Gone}]
  /\ at \in [UserRequests -> UserLabels]
  /\ asked \in [UserRequests -> UserOrders \cup {Nobody}]
  /\ copy \in [UserRequests -> UserRows \cup {Nobody}]
  /\ token \in [UserRequests -> Ids \cup {Nobody}]
  /\ told \in [UserRequests -> {"nothing", "refused", "notfound", "failed", "ok"}]
  /\ inserted \in [UserRequests -> Ids \cup {Nobody}]
  /\ passwords \in [Ids -> UserRequests \cup {Nobody}]
  /\ checked \in [UserRequests -> SUBSET Ids]

\* The label a request has got to says what it asks for, and what it cannot have
\* done yet.
Stages ==
  \A r \in UserRequests :
    /\ at[r] \notin {"new", "done"} => asked[r] \in UserOrders
    /\ at[r] \in {"name", "email", "insert", "lastid"} => asked[r].kind = "register"
    /\ at[r] = "find" => asked[r].kind \in {"login", "info", "profile", "changePassword"}
    /\ at[r] = "write" =>
         asked[r].kind \in {"profile", "changePassword", "resetPassword", "status", "remove"}
    /\ at[r] = "new" => asked[r] = Nobody /\ checked[r] = {}
    /\ at[r] \in {"new", "name", "email", "insert"} => inserted[r] = Nobody
    /\ at[r] # "done" => token[r] = Nobody

\* Ids are not given out again, and a row keeps the name it was inserted with: what
\* a registration has looked at still has other names than its own.
Looked ==
  \A r \in UserRequests : \A j \in checked[r] :
    /\ users[j] # Nobody
    /\ asked[r] \in RegisterOrders
    /\ users[j] # Gone => users[j].name # asked[r].name

\* Who inserted a row asked for its name; who wrote to it is done.
Authors ==
  \A i \in Rowed :
    /\ users[i].by # Nobody =>
         asked[users[i].by] \in RegisterOrders /\ users[i].name = asked[users[i].by].name
    /\ \A r \in {users[i].profile, users[i].password} \ {Nobody} :
         asked[r] \in UserOrders /\ (asked[r].kind # "register" => at[r] = "done")

\* The copy of a request has the name and the author of its row, if that is still
\* there; no other gets its id.
Copies ==
  \A r \in UserRequests :
    at[r] = "write" /\ asked[r].kind = "profile" =>
      /\ copy[r] # Nobody /\ asked[r].id \in Ids /\ users[asked[r].id] # Nobody
      /\ asked[r].id \in Rowed =>
           copy[r].name = users[asked[r].id].name /\ copy[r].by = users[asked[r].id].by

\* What a request has inserted, and the row its token names, has the name it
\* asked for.
Answered ==
  \A r \in UserRequests :
    /\ inserted[r] # Nobody =>
         /\ asked[r] \in RegisterOrders /\ users[inserted[r]] # Nobody
         /\ users[inserted[r]] # Gone => users[inserted[r]].name = asked[r].name
    /\ token[r] # Nobody =>
         /\ asked[r] \in RegisterOrders \cup LoginOrders /\ users[token[r]] # Nobody
         /\ users[token[r]] # Gone => users[token[r]].name = asked[r].name
         /\ asked[r].kind = "register" => token[r] = inserted[r]

AccountsIInv ==
  /\ AccountsTypeOK /\ Stages
  /\ Looked /\ Authors /\ Copies /\ Answered
  /\ PasswordStands /\ FailedChangesNothing

LEMMA AccountsInvImplies == AccountsIInv => NamesUnique /\ TokenNamesItsUser
  <1> SUFFICES ASSUME AccountsIInv PROVE NamesUnique /\ TokenNamesItsUser
    OBVIOUS
  <1>1. NamesUnique
    BY AccountsAssumption
    DEF AccountsIInv, AccountsTypeOK, NamesUnique, Looked, Authors, Rowed, UserRows
  <1>2. TokenNamesItsUser
    BY AccountsAssumption DEF AccountsIInv, AccountsTypeOK, Answered, TokenNamesItsUser
  <1> QED
    BY <1>1, <1>2

-----------------------------------------------------------------------------
\* Which fields an order has.
LEMMA UserOrderFields ==
  ASSUME NEW o \in UserOrders
  PROVE  /\ o.kind \in {"register", "login", "info", "profile", "changePassword",
                        "resetPassword", "status", "remove"}
         /\ o.kind = "register" => o \in RegisterOrders
         /\ o.kind = "login" => o \in LoginOrders
         /\ o.kind \in {"register", "login"} => o.name \in Names
         /\ o.kind \in {"register", "profile"} => o.email \in Names \cup {Nobody}
         /\ o.kind \notin {"register", "login"} => o.id \in Ids
         /\ o.kind = "status" => o.active \in BOOLEAN
  <1>1. CASE o \in RegisterOrders
    BY <1>1 DEF RegisterOrders
  <1>2. CASE o \in LoginOrders
    BY <1>2 DEF LoginOrders
  <1>3. CASE o \in InfoOrders \cup ProfileOrders
    BY <1>3 DEF InfoOrders, ProfileOrders
  <1>4. CASE o \in PasswordOrders
    BY <1>4 DEF PasswordOrders
  <1>5. CASE o \in StateOrders
    BY <1>5 DEF StateOrders
  <1> QED
    BY <1>1, <1>2, <1>3, <1>4, <1>5 DEF UserOrders

LEMMA AccountsInitIInv == AccountsInit => AccountsIInv
  <1> SUFFICES ASSUME AccountsInit PROVE AccountsIInv
    OBVIOUS
  <1>1. \A x \in OldUsers : x \in UserRows /\ x.by = Nobody /\ x.profile = Nobody
                            /\ x.password = Nobody
    BY DEF OldUsers, UserRows
  <1>2. AccountsTypeOK
    BY <1>1 DEF AccountsInit, AccountsTypeOK, UserLabels
  <1>3. Stages /\ Looked /\ Copies /\ Answered
    BY DEF AccountsInit, Stages, Looked, Copies, Answered
  <1>4. Authors /\ PasswordStands /\ FailedChangesNothing
    BY <1>1, AccountsAssumption
    DEF AccountsInit, Authors, PasswordStands, FailedChangesNothing, Rowed
  <1> QED
    BY <1>2, <1>3, <1>4 DEF AccountsIInv

-----------------------------------------------------------------------------
(* Users: requests that only read, or are answered at once.                *)

\* A step that leaves the table and the passwords as they are keeps what is said
\* of rows, whatever a request is answered while it is in no row.
LEMMA SameRows ==
  ASSUME AccountsIInv, NEW r \in UserRequests, at[r] # "done",
         UNCHANGED <<users, passwords, inserted>>,
         \A q \in UserRequests \ {r} :
           asked'[q] = asked[q] /\ at'[q] = at[q] /\ told'[q] = told[q],
         asked[r] \in UserOrders => asked'[r] = asked[r]
  PROVE  PasswordStands' /\ FailedChangesNothing' /\ Authors'
  <1>1. \A i \in Rowed : r \in {users[i].profile, users[i].password}
          => asked[r] \in UserOrders /\ asked[r].kind = "register"
    BY AccountsAssumption DEF AccountsIInv, Authors
  <1>2. Rowed' = Rowed
    BY DEF Rowed
  <1>3. PasswordStands'
    BY <1>2 DEF AccountsIInv, PasswordStands
  <1>4. FailedChangesNothing'
    BY <1>1, <1>2 DEF AccountsIInv, FailedChangesNothing
  <1>5. Authors'
    <2> SUFFICES ASSUME NEW i \in Rowed
                 PROVE  /\ users[i].by # Nobody =>
                             asked'[users[i].by] \in RegisterOrders
                             /\ users[i].name = asked'[users[i].by].name
                        /\ \A q \in {users[i].profile, users[i].password} \ {Nobody} :
                             asked'[q] \in UserOrders
                             /\ (asked'[q].kind # "register" => at'[q] = "done")
      BY <1>2 DEF Authors
    <2>1. users[i] \in UserRows
      BY DEF AccountsIInv, AccountsTypeOK, Rowed
    <2>2. {users[i].by, users[i].profile, users[i].password} \subseteq UserRequests \cup {Nobody}
      BY <2>1 DEF UserRows
    <2>3. RegisterOrders \subseteq UserOrders
      BY DEF UserOrders
    <2> QED
      BY <1>1, <2>2, <2>3 DEF AccountsIInv, Authors
  <1> QED
    BY <1>3, <1>4, <1>5

LEMMA UserRejectIInv ==
  ASSUME AccountsIInv, NEW r \in UserRequests, UserReject(r)
  PROVE  AccountsIInv'
  <1> USE DEF UserReject, Tell, Advance, AccountsIInv
  <1>1. AccountsTypeOK'
    BY DEF AccountsTypeOK, UserLabels
  <1>2. Stages' /\ Looked' /\ Copies' /\ Answered'
    BY DEF AccountsTypeOK, UserLabels, Stages, Looked, Copies, Answered, Rowed
  <1>3. PasswordStands' /\ FailedChangesNothing' /\ Authors'
    BY SameRows DEF AccountsTypeOK
  <1> QED
    BY <1>1, <1>2, <1>3

LEMMA UserBeginIInv ==
  ASSUME AccountsIInv, NEW r \in UserRequests, UserBegin(r)
  PROVE  AccountsIInv'
  <1>1. PICK o \in UserOrders :
          /\ asked' = [asked EXCEPT ![r] = o]
          /\ at[r] = "new" /\ at' = [at EXCEPT ![r] = FirstStatement(o.kind)]
    BY DEF UserBegin, Advance
  <1>2. UNCHANGED <<users, copy, token, told, inserted, passwords, checked>>
    BY DEF UserBegin
  <1>3. /\ FirstStatement(o.kind) \in {"name", "find", "write"}
        /\ FirstStatement(o.kind) = "name" => o.kind = "register"
        /\ FirstStatement(o.kind) = "find" =>
             o.kind \in {"login", "info", "profile", "changePassword"}
        /\ FirstStatement(o.kind) = "write" =>
             o.kind \in {"resetPassword", "status", "remove"}
    BY UserOrderFields DEF FirstStatement
  <1>4. AccountsTypeOK'
    BY <1>1, <1>2, <1>3 DEF AccountsIInv, AccountsTypeOK, UserLabels
  <1>5. Stages'
    BY <1>1, <1>2, <1>3 DEF AccountsIInv, AccountsTypeOK, Stages
  <1>6. Looked' /\ Answered'
    BY <1>1, <1>2 DEF AccountsIInv, AccountsTypeOK, Stages, Looked, Answered
  <1>7. Copies'
    BY <1>1, <1>2, <1>3 DEF AccountsIInv, AccountsTypeOK, Copies, Rowed
  <1>8. PasswordStands' /\ FailedChangesNothing' /\ Authors'
    <2>1. /\ \A q \in UserRequests \ {r} :
               asked'[q] = asked[q] /\ at'[q] = at[q] /\ told'[q] = told[q]
          /\ at[r] # "done"
      BY <1>1, <1>2 DEF AccountsIInv, AccountsTypeOK
    <2>2. asked[r] \notin UserOrders
      BY <1>1, AccountsAssumption DEF AccountsIInv, Stages
    <2> QED
      BY <1>1, <1>2, <2>1, <2>2, SameRows
  <1> QED
    BY <1>4, <1>5, <1>6, <1>7, <1>8 DEF AccountsIInv

LEMMA CheckNameIInv ==
  ASSUME AccountsIInv, NEW r \in UserRequests, CheckName(r)
  PROVE  AccountsIInv'
  <1> USE DEF AccountsIInv
  <1>1. /\ at[r] = "name" /\ UNCHANGED <<users, asked, copy, token, inserted, passwords>>
        /\ asked[r] \in RegisterOrders
    BY UserOrderFields DEF CheckName, Stages
  <1>2. PICK to \in {"insert", "email", "done"} : at' = [at EXCEPT ![r] = to]
    BY DEF CheckName, Tell, Advance
  <1>3. \/ told' = told
        \/ told' = [told EXCEPT ![r] = "failed"]
    BY DEF CheckName, Tell
  <1>4. /\ checked' \in [UserRequests -> SUBSET Ids]
        /\ \A q \in UserRequests \ {r} : checked'[q] = checked[q]
        /\ \A j \in checked'[r] :
             j \in checked[r] \/ (j \in Rowed /\ users[j].name # asked[r].name)
    <2>1. \/ checked' = checked
          \/ checked' = [checked EXCEPT ![r] = {}]
          \/ /\ checked' = [checked EXCEPT ![r] = Rowed]
             /\ Having("name", asked[r].name) = {}
      BY DEF CheckName
    <2> QED
      BY <2>1 DEF Having, Rowed, AccountsTypeOK
  <1>5. AccountsTypeOK'
    BY <1>1, <1>2, <1>3, <1>4 DEF AccountsTypeOK, UserLabels
  <1>6. Stages'
    BY <1>1, <1>2, <1>4, UserOrderFields DEF AccountsTypeOK, Stages
  <1>7. Looked'
    BY <1>1, <1>4 DEF AccountsTypeOK, Looked, Rowed
  <1>8. Copies' /\ Answered'
    BY <1>1, <1>2 DEF AccountsTypeOK, Copies, Answered, Rowed
  <1>9. PasswordStands' /\ FailedChangesNothing' /\ Authors'
    BY <1>1, <1>2, <1>3, SameRows DEF AccountsTypeOK
  <1> QED
    BY <1>5, <1>6, <1>7, <1>8, <1>9

\* A request of which only the label, the answer, the copy and the token change.
LEMMA ReadStep ==
  ASSUME AccountsIInv, NEW r \in UserRequests, at[r] \notin {"new", "done"},
         NEW to \in {"insert", "write", "done"},
         at' = [at EXCEPT ![r] = to],
         to = "insert" => at[r] = "email",
         to = "write" => asked[r].kind \in {"profile", "changePassword"} /\ at[r] = "find",
         told' = told \/ \E what \in {"refused", "notfound", "failed", "ok"} :
                           told' = [told EXCEPT ![r] = what],
         UNCHANGED <<users, asked, inserted, passwords, checked>>,
         AccountsTypeOK', Answered', Copies',
         \A q \in UserRequests : token'[q] # token[q] => q = r /\ to = "done"
  PROVE  AccountsIInv'
  <1> USE DEF AccountsIInv
  <1>1. Stages'
    BY DEF AccountsTypeOK, Stages
  <1>2. Looked'
    BY DEF Looked
  <1>3. PasswordStands' /\ FailedChangesNothing' /\ Authors'
    BY SameRows DEF AccountsTypeOK
  <1> QED
    BY <1>1, <1>2, <1>3

LEMMA CheckEmailIInv ==
  ASSUME AccountsIInv, NEW r \in UserRequests, CheckEmail(r)
  PROVE  AccountsIInv'
  <1>1. /\ at[r] = "email"
        /\ UNCHANGED <<users, asked, copy, token, inserted, passwords, checked>>
    BY DEF CheckEmail
  <1>2. PICK to \in {"insert", "done"} : at' = [at EXCEPT ![r] = to]
    BY DEF CheckEmail, Tell, Advance
  <1>3. told' = told \/ told' = [told EXCEPT ![r] = "failed"]
    BY DEF CheckEmail, Tell
  <1>4. AccountsTypeOK'
    BY <1>1, <1>2, <1>3 DEF AccountsIInv, AccountsTypeOK, UserLabels
  <1>5. Copies' /\ Answered'
    BY <1>1, <1>2 DEF AccountsIInv, AccountsTypeOK, Copies, Answered, Rowed
  <1> QED
    BY <1>1, <1>2, <1>3, <1>4, <1>5, ReadStep

LEMMA LastIdIInv ==
  ASSUME AccountsIInv, NEW r \in UserRequests, LastId(r)
  PROVE  AccountsIInv'
  <1>1. /\ at[r] = "lastid" /\ at' = [at EXCEPT ![r] = "done"]
        /\ UNCHANGED <<users, asked, copy, inserted, passwords, checked>>
    BY DEF LastId, Tell, Advance
  <1>2. /\ token' \in {[token EXCEPT ![r] = i] : i \in {inserted[r], Nobody}}
        /\ \E what \in {"failed", "ok"} : told' = [told EXCEPT ![r] = what]
    BY DEF LastId, Tell, LastIdOutcomes
  <1>3. AccountsTypeOK'
    BY <1>1, <1>2 DEF AccountsIInv, AccountsTypeOK, UserLabels
  <1>4. Copies'
    BY <1>1, <1>2 DEF AccountsIInv, AccountsTypeOK, Copies, Rowed
  <1>5. Answered'
    BY <1>1, <1>2 DEF AccountsIInv, AccountsTypeOK, Answered
  <1>6. \A q \in UserRequests : token'[q] # token[q] => q = r
    BY <1>2 DEF AccountsIInv, AccountsTypeOK
  <1> QED
    BY <1>1, <1>2, <1>3, <1>4, <1>5, <1>6, ReadStep

LEMMA LoginIInv ==
  ASSUME AccountsIInv, NEW r \in UserRequests, Login(r)
  PROVE  AccountsIInv'
  <1>1. /\ at[r] = "find" /\ asked[r].kind = "login" /\ at' = [at EXCEPT ![r] = "done"]
        /\ UNCHANGED <<users, asked, copy, inserted, passwords, checked>>
        /\ asked[r] \in LoginOrders
    BY UserOrderFields DEF Login, Tell, Advance, Is, AccountsIInv, Stages
  <1>2. /\ \E what \in {"refused", "ok"} : told' = [told EXCEPT ![r] = what]
        /\ \E i \in Ids \cup {Nobody} :
             /\ token' = [token EXCEPT ![r] = i]
             /\ i # Nobody => i \in Rowed /\ users[i].name = asked[r].name
    <2>1. PICK i \in FindByUsername(asked[r].name) :
            /\ token' = [token EXCEPT ![r] = Authentic(i, asked[r].password)]
            /\ Tell(r, "find", IF Authentic(i, asked[r].password) # Nobody
                                 THEN "ok" ELSE "refused")
      BY DEF Login
    <2>2. Authentic(i, asked[r].password) \in {i, Nobody}
      BY DEF Authentic
    <2>3. i # Nobody => i \in Rowed /\ users[i].name = asked[r].name
      BY DEF FindByUsername, QueryOutcomes
    <2>4. Rowed \subseteq Ids
      BY DEF Rowed
    <2> QED
      BY <2>1, <2>2, <2>3, <2>4 DEF Tell
  <1>3. AccountsTypeOK'
    BY <1>1, <1>2 DEF AccountsIInv, AccountsTypeOK, UserLabels
  <1>4. Copies'
    BY <1>1 DEF AccountsIInv, AccountsTypeOK, Copies, Rowed
  <1>5. Answered'
    BY <1>1, <1>2 DEF AccountsIInv, AccountsTypeOK, Answered, Rowed, LoginOrders
  <1>6. \A q \in UserRequests : token'[q] # token[q] => q = r
    BY <1>2 DEF AccountsIInv, AccountsTypeOK
  <1>7. told' = told \/ \E what \in {"refused", "notfound", "failed", "ok"} :
                         told' = [told EXCEPT ![r] = what]
    BY <1>2
  <1> QED
    BY <1>1, <1>3, <1>4, <1>5, <1>6, <1>7, ReadStep

LEMMA InfoIInv ==
  ASSUME AccountsIInv, NEW r \in UserRequests, Info(r)
  PROVE  AccountsIInv'
  <1>1. /\ at[r] = "find" /\ at' = [at EXCEPT ![r] = "done"]
        /\ \E what \in {"notfound", "ok"} : told' = [told EXCEPT ![r] = what]
        /\ UNCHANGED <<users, asked, copy, token, inserted, passwords, checked>>
    BY DEF Info, Tell, Advance, Is
  <1>2. AccountsTypeOK'
    BY <1>1 DEF AccountsIInv, AccountsTypeOK, UserLabels
  <1>3. Copies' /\ Answered'
    BY <1>1 DEF AccountsIInv, AccountsTypeOK, Copies, Answered, Rowed
  <1> QED
    BY <1>1, <1>2, <1>3, ReadStep

LEMMA FindUserIInv ==
  ASSUME AccountsIInv, NEW r \in UserRequests, FindUser(r)
  PROVE  AccountsIInv'
  <1>1. /\ at[r] = "find" /\ asked[r].kind \in {"profile", "changePassword"}
        /\ UNCHANGED <<users, asked, token, inserted, passwords, checked>>
        /\ asked[r].id \in Ids
    BY UserOrderFields DEF FindUser, Is, AccountsIInv, Stages
  <1>2. CASE /\ at' = [at EXCEPT ![r] = "write"] /\ UNCHANGED told
             /\ copy' = [copy EXCEPT ![r] = users[asked[r].id]]
             /\ asked[r].id \in Rowed
    <2>1. users[asked[r].id] \in UserRows
      BY <1>1, <1>2 DEF AccountsIInv, AccountsTypeOK, Rowed
    <2>2. AccountsTypeOK'
      BY <1>1, <1>2, <2>1 DEF AccountsIInv, AccountsTypeOK, UserLabels
    <2>3. Copies'
      BY <1>1, <1>2, <2>1, AccountsAssumption
      DEF AccountsIInv, AccountsTypeOK, Copies, Rowed
    <2>4. Answered'
      BY <1>1 DEF AccountsIInv, Answered
    <2> QED
      BY <1>1, <1>2, <2>2, <2>3, <2>4, ReadStep
  <1>3. CASE /\ at' = [at EXCEPT ![r] = "done"]
             /\ told' = [told EXCEPT ![r] = "failed"] /\ UNCHANGED copy
    <2>1. AccountsTypeOK'
      BY <1>1, <1>3 DEF AccountsIInv, AccountsTypeOK, UserLabels
    <2>2. Copies' /\ Answered'
      BY <1>1, <1>3 DEF AccountsIInv, AccountsTypeOK, Copies, Answered, Rowed
    <2> QED
      BY <1>1, <1>3, <2>1, <2>2, ReadStep
  <1>4. PICK i \in FindById(asked[r].id) :
          \/ /\ Validated(r, i) /\ Advance(r, "find", "write")
             /\ copy' = [copy EXCEPT ![r] = users[i]] /\ UNCHANGED told
          \/ ~Validated(r, i) /\ Tell(r, "find", "failed") /\ UNCHANGED copy
    BY DEF FindUser
  <1>5. i # Nobody => i = asked[r].id /\ i \in Rowed
    BY <1>4 DEF FindById, QueryOutcomes
  <1> QED
    BY <1>2, <1>3, <1>4, <1>5 DEF Validated, Advance, Tell

-----------------------------------------------------------------------------
(* Users: requests that change the table.                                  *)

LEMMA InsertIInv ==
  ASSUME AccountsIInv, NEW r \in UserRequests, Insert(r)
  PROVE  AccountsIInv'
  <1> DEFINE row == [name |-> asked[r].name, email |-> asked[r].email,
                     active |-> TRUE, profile |-> r, password |-> r, by |-> r]
  <1>1. /\ at[r] = "insert" /\ UNCHANGED <<asked, copy, token, checked>>
        /\ asked[r] \in RegisterOrders /\ asked[r].kind = "register"
        /\ row \in UserRows
    BY UserOrderFields DEF Insert, AccountsIInv, Stages, UserRows
  <1>2. PICK to \in {"lastid", "done"} :
          /\ at' = [at EXCEPT ![r] = to]
          /\ told' = told \/ told' = [told EXCEPT ![r] = "failed"]
    BY DEF Insert, Tell, Advance
  <1>3. CASE UNCHANGED <<users, inserted, passwords>>
    <2>1. AccountsTypeOK'
      BY <1>1, <1>2, <1>3 DEF AccountsIInv, AccountsTypeOK, UserLabels
    <2>2. Stages'
      BY <1>1, <1>2, <1>3 DEF AccountsIInv, AccountsTypeOK, Stages
    <2>3. Looked' /\ Copies' /\ Answered'
      BY <1>1, <1>2, <1>3
      DEF AccountsIInv, AccountsTypeOK, Looked, Copies, Answered, Rowed
    <2>4. PasswordStands' /\ FailedChangesNothing' /\ Authors'
      BY <1>1, <1>2, <1>3, SameRows DEF AccountsIInv, AccountsTypeOK
    <2> QED
      BY <2>1, <2>2, <2>3, <2>4 DEF AccountsIInv
  <1>4. ASSUME NEW i \in Ids, users[i] = Nobody,
               users' = [users EXCEPT ![i] = row],
               inserted' = [inserted EXCEPT ![r] = i],
               passwords' = [passwords EXCEPT ![i] = r]
        PROVE  AccountsIInv'
    <2> HIDE DEF row
    <2>1. AccountsTypeOK'
      BY <1>1, <1>2, <1>4 DEF AccountsIInv, AccountsTypeOK, UserLabels
    <2>2. Stages'
      BY <1>1, <1>2, <1>4 DEF AccountsIInv, AccountsTypeOK, Stages
    <2>3. Rowed' = Rowed \cup {i} /\ i \notin Rowed
      BY <1>1, <1>4, AccountsAssumption DEF Rowed, AccountsIInv, AccountsTypeOK
    <2>4. users'[i] = row /\ \A j \in Rowed : users'[j] = users[j]
      BY <1>4, <2>3 DEF AccountsIInv, AccountsTypeOK
    <2>5. Looked'
      BY <1>1, <1>4 DEF AccountsIInv, AccountsTypeOK, Looked
    <2>6. Copies'
      BY <1>1, <1>2, <1>4, <2>3, <2>4, AccountsAssumption
      DEF AccountsIInv, AccountsTypeOK, Copies, Stages
    <2>7. Answered'
      <3>1. row.name = asked[r].name
        BY DEF row
      <3>2. token[r] = Nobody
        BY <1>1 DEF AccountsIInv, Stages
      <3> QED
        BY <1>1, <1>4, <3>1, <3>2, AccountsAssumption DEF AccountsIInv, AccountsTypeOK, Answered
    <2>8. row.profile = r /\ row.password = r /\ row.by = r /\ row.name = asked[r].name
      BY DEF row
    <2>9. PasswordStands'
      BY <1>4, <2>3, <2>4, <2>8 DEF AccountsIInv, AccountsTypeOK, PasswordStands, Rowed
    <2>10. \A j \in Rowed : r \in {users[j].profile, users[j].password}
             => asked[r].kind = "register"
      BY <1>1
    <2>11. FailedChangesNothing'
      BY <1>1, <1>2, <2>3, <2>4, <2>8 DEF AccountsIInv, AccountsTypeOK, FailedChangesNothing
    <2>12. Authors'
      <3>1. RegisterOrders \subseteq UserOrders
        BY DEF UserOrders
      <3>2. ASSUME NEW j \in Rowed, NEW q \in {users[j].profile, users[j].password} \ {Nobody}
            PROVE  asked'[q] \in UserOrders /\ (asked'[q].kind # "register" => at'[q] = "done")
        <4>1. users[j] \in UserRows
          BY DEF AccountsIInv, AccountsTypeOK, Rowed
        <4>2. q \in UserRequests
          BY <4>1 DEF UserRows
        <4> QED
          BY <1>1, <1>2, <4>2, <3>1 DEF AccountsIInv, AccountsTypeOK, Authors
      <3> QED
        BY <1>1, <1>2, <2>3, <2>4, <2>8, <3>1, <3>2 DEF AccountsIInv, Authors
    <2> QED
      BY <2>1, <2>2, <2>5, <2>6, <2>7, <2>9, <2>11, <2>12 DEF AccountsIInv
  <1> QED
    BY <1>3, <1>4 DEF Insert, row

\* An UPDATE or DELETE of one row: what it may make of it, and the history of its
\* password.
LEMMA WriteStep ==
  ASSUME AccountsIInv, NEW r \in UserRequests, at[r] = "write",
         NEW i \in Ids, NEW row, Write(r, i, row),
         i \in Rowed => \/ row = Gone
                        \/ /\ row \in UserRows
                           /\ row.name = users[i].name /\ row.by = users[i].by
                           /\ row.profile \in {users[i].profile, r}
                           /\ row.password \in {users[i].password, r},
         \/ UNCHANGED passwords /\ (i \in Rowed /\ row # Gone => row.password = users[i].password)
         \/ SetsPassword(r, i) /\ row # Gone /\ (i \in Rowed => row.password = r)
  PROVE  AccountsIInv'
  <1>1. /\ at' = [at EXCEPT ![r] = "done"]
        /\ UNCHANGED <<asked, copy, token, inserted, checked>>
        /\ asked[r] \in UserOrders /\ asked[r].kind # "register"
    BY DEF Write, Tell, Advance, AccountsIInv, Stages
  <1>2. PICK o \in UpdateOutcomes(Cardinality({i} \cap Rowed)) :
          /\ users' = IF o.ran /\ i \in Rowed THEN [users EXCEPT ![i] = row] ELSE users
          /\ told' = [told EXCEPT ![r] = IF UpdateSucceeded(o) THEN "ok" ELSE "failed"]
    BY DEF Write, Tell
  <1>3. Stages' /\ passwords' \in [Ids -> UserRequests \cup {Nobody}]
    BY <1>1 DEF AccountsIInv, AccountsTypeOK, Stages, SetsPassword
  <1>4. CASE users' = users
    <2>1. passwords' = passwords
      BY <1>4 DEF SetsPassword
    <2>2. AccountsTypeOK'
      BY <1>1, <1>2, <1>3, <1>4 DEF AccountsIInv, AccountsTypeOK, UserLabels
    <2>3. Looked' /\ Copies' /\ Answered'
      BY <1>1, <1>4 DEF AccountsIInv, AccountsTypeOK, Looked, Copies, Answered, Rowed
    <2>4. PasswordStands' /\ FailedChangesNothing' /\ Authors'
      <3>1. \A q \in UserRequests \ {r} :
              asked'[q] = asked[q] /\ at'[q] = at[q] /\ told'[q] = told[q]
        BY <1>1, <1>2 DEF AccountsIInv, AccountsTypeOK
      <3> QED
        BY <1>1, <1>4, <2>1, <3>1, SameRows
    <2> QED
      BY <1>3, <2>2, <2>3, <2>4 DEF AccountsIInv
  <1>5. CASE users' # users
    <2>1. i \in Rowed /\ users' = [users EXCEPT ![i] = row] /\ o.ran
      BY <1>2, <1>5
    <2>2. told' = [told EXCEPT ![r] = "ok"]
      <3>1. {i} \cap Rowed = {i}
        BY <2>1
      <3>2. Cardinality({i} \cap Rowed) = 1
        BY <3>1, FS_Singleton
      <3>3. o \in {NotPrepared(0)} \cup Updated(1)
        BY <3>2 DEF UpdateOutcomes
      <3>4. o.value # 0
        BY <2>1, <3>3 DEF NotPrepared, Updated, Outcome
      <3> QED
        BY <1>2, <3>4 DEF UpdateSucceeded
    <2>3. /\ row = Gone \/ row \in UserRows
          /\ row # Gone => /\ row.name = users[i].name /\ row.by = users[i].by
                           /\ row.profile \in {users[i].profile, r}
                           /\ row.password \in {users[i].password, r}
      BY <2>1
    <2>4. users[i] \in UserRows
      BY <2>1 DEF AccountsIInv, AccountsTypeOK, Rowed
    <2>5. /\ Rowed' = IF row = Gone THEN Rowed \ {i} ELSE Rowed
          /\ users'[i] = row /\ \A j \in Ids \ {i} : users'[j] = users[j]
      BY <2>1, <2>3, AccountsAssumption DEF AccountsIInv, AccountsTypeOK, Rowed
    <2>6. AccountsTypeOK'
      BY <1>1, <1>3, <2>1, <2>2, <2>3 DEF AccountsIInv, AccountsTypeOK, UserLabels
    <2>7. Looked'
      <3> SUFFICES ASSUME NEW q \in UserRequests, NEW j \in checked[q]
                   PROVE  /\ users'[j] # Nobody
                          /\ users'[j] # Gone => users'[j].name # asked[q].name
        BY <1>1 DEF AccountsIInv, Looked
      <3>1. j \in Ids /\ users[j] # Nobody /\ (users[j] # Gone => users[j].name # asked[q].name)
        BY DEF AccountsIInv, AccountsTypeOK, Looked
      <3>2. CASE j = i
        BY <2>1, <2>3, <2>4, <2>5, <3>1, <3>2, AccountsAssumption DEF Rowed
      <3> QED
        BY <2>5, <3>1, <3>2
    <2>8. Copies'
      <3> SUFFICES ASSUME NEW q \in UserRequests, at'[q] = "write", asked[q].kind = "profile"
                   PROVE  LET id == asked[q].id
                          IN /\ copy[q] # Nobody /\ id \in Ids /\ users'[id] # Nobody
                             /\ id \in Rowed' =>
                                  copy[q].name = users'[id].name /\ copy[q].by = users'[id].by
        BY <1>1 DEF Copies
      <3>1. at[q] = "write"
        BY <1>1 DEF AccountsIInv, AccountsTypeOK
      <3>2. row # Nobody
        BY <2>3, AccountsAssumption
      <3> QED
        BY <2>1, <2>3, <2>5, <3>1, <3>2 DEF AccountsIInv, Copies
    <2>9. Answered'
      <3>1. \A j \in Ids : users[j] # Nobody =>
              users'[j] # Nobody /\ (users'[j] # Gone => users[j] # Gone /\ users'[j].name = users[j].name)
        BY <2>1, <2>3, <2>5, AccountsAssumption DEF Rowed
      <3> QED
        BY <1>1, <3>1 DEF AccountsIInv, AccountsTypeOK, Answered
    <2>10. PasswordStands'
      <3>1. CASE UNCHANGED passwords /\ (i \in Rowed /\ row # Gone => row.password = users[i].password)
        BY <2>1, <2>5, <3>1 DEF AccountsIInv, AccountsTypeOK, PasswordStands, Rowed
      <3>2. CASE SetsPassword(r, i) /\ row # Gone /\ row.password = r
        BY <1>5, <2>1, <2>5, <3>2 DEF AccountsIInv, AccountsTypeOK, PasswordStands, SetsPassword, Rowed
      <3> QED
        BY <2>1, <3>1, <3>2
    <2>11. FailedChangesNothing'
      BY <1>1, <2>2, <2>3, <2>5 DEF AccountsIInv, AccountsTypeOK, FailedChangesNothing, Rowed
    <2>12. Authors'
      <3> SUFFICES ASSUME NEW j \in Rowed, users'[j] # Gone
                   PROVE  /\ users'[j].by # Nobody =>
                               asked[users'[j].by] \in RegisterOrders
                               /\ users'[j].name = asked[users'[j].by].name
                          /\ \A q \in {users'[j].profile, users'[j].password} \ {Nobody} :
                               asked[q] \in UserOrders
                               /\ (asked[q].kind # "register" => at'[q] = "done")
        <4>1. \A j \in Rowed' : j \in Rowed /\ users'[j] # Gone
          BY <2>5 DEF Rowed
        <4> QED
          BY <1>1, <4>1 DEF Authors
      <3>1. users[j] \in UserRows /\ j \in Ids
        BY DEF AccountsIInv, AccountsTypeOK, Rowed
      <3>2. {users[j].profile, users[j].password} \ {Nobody} \subseteq UserRequests
        BY <3>1 DEF UserRows
      <3>3. \A q \in {users[j].profile, users[j].password, r} \ {Nobody} :
              asked[q] \in UserOrders /\ (asked[q].kind # "register" => at'[q] = "done")
        BY <1>1, <3>2 DEF AccountsIInv, AccountsTypeOK, Authors
      <3>4. /\ users'[j].by = users[j].by /\ users'[j].name = users[j].name
            /\ users'[j].profile \in {users[j].profile, r}
            /\ users'[j].password \in {users[j].password, r}
        <4>1. CASE j = i
          BY <2>3, <2>5, <4>1
        <4> QED
          BY <2>5, <3>1, <4>1
      <3>5. users[j].by # Nobody =>
              asked[users[j].by] \in RegisterOrders /\ users[j].name = asked[users[j].by].name
        BY DEF AccountsIInv, Authors
      <3>6. {users'[j].profile, users'[j].password}
              \subseteq {users[j].profile, users[j].password, r}
        BY <3>4
      <3> QED
        BY <3>3, <3>4, <3>5, <3>6
    <2> QED
      BY <1>3, <2>6, <2>7, <2>8, <2>9, <2>10, <2>11, <2>12 DEF AccountsIInv
  <1> QED
    BY <1>4, <1>5

LEMMA UpdateUserIInv ==
  ASSUME AccountsIInv, NEW r \in UserRequests, UpdateUser(r)
  PROVE  AccountsIInv'
  <1> DEFINE i == asked[r].id
             row == [ProfileRow(r) EXCEPT !.password = users[i].password]
  <1>1. /\ at[r] = "write" /\ asked[r].kind = "profile" /\ asked[r] \in UserOrders
        /\ Write(r, i, row) /\ UNCHANGED passwords
    BY DEF UpdateUser, Is, AccountsIInv, Stages
  <1>2. i \in Ids /\ asked[r].email \in Names \cup {Nobody}
    BY <1>1, UserOrderFields
  <1>3. copy[r] \in UserRows
    BY <1>1 DEF AccountsIInv, AccountsTypeOK, Copies
  <1>4. ASSUME i \in Rowed
        PROVE  /\ row \in UserRows
               /\ row.name = users[i].name /\ row.by = users[i].by
               /\ row.profile = r /\ row.password = users[i].password
    <2>1. users[i] \in UserRows /\ copy[r].name = users[i].name /\ copy[r].by = users[i].by
      BY <1>1, <1>4 DEF AccountsIInv, AccountsTypeOK, Copies, Rowed
    <2> QED
      BY <1>2, <1>3, <2>1 DEF ProfileRow, UserRows
  <1> HIDE DEF i, row
  <1> QED
    BY <1>1, <1>2, <1>4, WriteStep

LEMMA SetPasswordIInv ==
  ASSUME AccountsIInv, NEW r \in UserRequests, SetPassword(r)
  PROVE  AccountsIInv'
  <1> DEFINE i == asked[r].id
             row == [users[i] EXCEPT !.password = r]
  <1>1. /\ at[r] = "write" /\ asked[r] \in UserOrders
        /\ asked[r].kind \in {"changePassword", "resetPassword"}
        /\ Write(r, i, row) /\ SetsPassword(r, i)
    BY DEF SetPassword, Is, AccountsIInv, Stages
  <1>2. i \in Ids
    BY <1>1, UserOrderFields
  <1>3. ASSUME i \in Rowed
        PROVE  /\ row \in UserRows
               /\ row.name = users[i].name /\ row.by = users[i].by
               /\ row.profile = users[i].profile /\ row.password = r
    BY <1>3 DEF AccountsIInv, AccountsTypeOK, Rowed, UserRows
  <1>4. CASE i \in Rowed
    <2>1. row # Gone
      BY <1>3, <1>4, AccountsAssumption
    <2> HIDE DEF i, row
    <2> QED
      BY <1>1, <1>2, <1>3, <1>4, <2>1, WriteStep
  <1>5. CASE i \notin Rowed
    <2>1. Write(r, i, Gone) /\ UNCHANGED passwords
      BY <1>1, <1>5 DEF Write, SetsPassword
    <2> HIDE DEF i, row
    <2> QED
      BY <1>1, <1>2, <1>5, <2>1, WriteStep
  <1> QED
    BY <1>4, <1>5

\* A row that is written with what it had, but for its state, or that goes.
LEMMA StateStep ==
  ASSUME AccountsIInv, NEW r \in UserRequests, at[r] = "write",
         NEW i \in Ids, NEW row, Write(r, i, row), UNCHANGED passwords,
         row = Gone \/ \E a \in BOOLEAN : row = [users[i] EXCEPT !.active = a]
  PROVE  AccountsIInv'
  <1>1. i \in Rowed /\ row # Gone =>
          /\ row \in UserRows
          /\ row.name = users[i].name /\ row.by = users[i].by
          /\ row.profile = users[i].profile /\ row.password = users[i].password
    BY DEF AccountsIInv, AccountsTypeOK, Rowed, UserRows
  <1> QED
    BY <1>1, WriteStep

LEMMA SetStatusIInv ==
  ASSUME AccountsIInv, NEW r \in UserRequests, SetStatus(r)
  PROVE  AccountsIInv'
  <1>1. /\ at[r] = "write" /\ asked[r].kind = "status" /\ asked[r] \in UserOrders
        /\ Write(r, asked[r].id, [users[asked[r].id] EXCEPT !.active = asked[r].active])
        /\ UNCHANGED passwords
    BY DEF SetStatus, Is, AccountsIInv, Stages
  <1>2. asked[r].id \in Ids /\ asked[r].active \in BOOLEAN
    BY <1>1, UserOrderFields
  <1> QED
    BY <1>1, <1>2, StateStep

LEMMA RemoveUserIInv ==
  ASSUME AccountsIInv, NEW r \in UserRequests, RemoveUser(r)
  PROVE  AccountsIInv'
  <1> DEFINE row == IF asked[r].soft THEN [users[asked[r].id] EXCEPT !.active = FALSE]
                                     ELSE Gone
  <1>1. /\ at[r] = "write" /\ asked[r].kind = "remove" /\ asked[r] \in UserOrders
        /\ Write(r, asked[r].id, row) /\ UNCHANGED passwords
    BY DEF RemoveUser, Is, AccountsIInv, Stages
  <1>2. asked[r].id \in Ids
    BY <1>1, UserOrderFields
  <1>3. row = Gone \/ \E a \in BOOLEAN : row = [users[asked[r].id] EXCEPT !.active = a]
    OBVIOUS
  <1> HIDE DEF row
  <1> QED
    BY <1>1, <1>2, <1>3, StateStep

-----------------------------------------------------------------------------
LEMMA AccountsNextIInv == AccountsIInv /\ [AccountsNext]_userVars => AccountsIInv'
  <1> SUFFICES ASSUME AccountsIInv, [AccountsNext]_userVars PROVE AccountsIInv'
    OBVIOUS
  <1>1. ASSUME NEW r \in UserRequests, UserRequest(r)
        PROVE  AccountsIInv'
    BY <1>1, UserRejectIInv, UserBeginIInv, CheckNameIInv, CheckEmailIInv, InsertIInv,
       LastIdIInv, LoginIInv, InfoIInv, FindUserIInv, UpdateUserIInv, SetPasswordIInv,
       SetStatusIInv, RemoveUserIInv
    DEF UserRequest
  <1>2. CASE UNCHANGED userVars
    BY <1>2 DEF userVars, AccountsIInv, AccountsTypeOK, Stages, Looked, Authors, Copies,
                Answered, PasswordStands, FailedChangesNothing, Rowed
  <1> QED
    BY <1>1, <1>2 DEF AccountsNext

\* For any number of requests: what the table of the users promises to requests
\* that overlap, fail and lose answers (user_service.cc, user_dao.cc).
THEOREM AccountsInvariant == AccountsSpec => []AccountsIInv
  BY AccountsInitIInv, AccountsNextIInv, PTL DEF AccountsSpec

\* Two rows of one name were inserted after the check of the later one, or without
\* an answer to it (user_service.cc:46).
THEOREM NamesAreUnique == AccountsSpec => []NamesUnique
  <1>1. AccountsIInv => NamesUnique
    BY AccountsInvImplies
  <1> QED
    BY <1>1, AccountsInvariant, PTL

\* No change of a profile brings an old password back (user_dao.cc:204).
THEOREM PasswordsStand == AccountsSpec => []PasswordStands
  <1>1. AccountsIInv => PasswordStands
    BY DEF AccountsIInv
  <1> QED
    BY <1>1, AccountsInvariant, PTL

\* A token names the user that was asked for or registered (user_dao.cc:71).
THEOREM TokensNameTheirUsers == AccountsSpec => []TokenNamesItsUser
  <1>1. AccountsIInv => TokenNamesItsUser
    BY AccountsInvImplies
  <1> QED
    BY <1>1, AccountsInvariant, PTL

\* What was answered as a failure was not done (user_dao.cc:224).
THEOREM FailuresChangeNothing == AccountsSpec => []FailedChangesNothing
  <1>1. AccountsIInv => FailedChangesNothing
    BY DEF AccountsIInv
  <1> QED
    BY <1>1, AccountsInvariant, PTL

-----------------------------------------------------------------------------
(* Tokens: the inductive invariant.                                        *)

TokensTypeOK ==
  /\ clock \in Nat
  /\ issued \in [Jtis -> [exp : Nat, nick : BOOLEAN] \cup {None}]
  /\ redisUntil \in [Jtis -> Nat]
  /\ step \in [Callers -> Steps]
  /\ holds \in [Callers -> [jti : Jtis \cup {None}, refresh : BOOLEAN, took : SUBSET Stores]]
  /\ blind \in [Callers -> SUBSET Stores]
  /\ verdict \in [Callers -> {"none", "refused", "accepted"}]
  /\ exchanged \in [Jtis -> SUBSET Stores]
  /\ known \in [Callers -> SUBSET Stores]

\* Redis keeps the token as long as it is valid.
KeptInRedis(j) == issued[j] # None /\ redisUntil[j] = issued[j].exp

\* What a caller holds was issued; what it counts as taken in by Redis is kept there.
Held ==
  \A c \in Callers :
    /\ step[c] # "start" => holds[c].jti \in Jtis /\ issued[holds[c].jti] # None
    /\ step[c] # "start" /\ "redis" \in holds[c].took \cup known[c]
         => KeptInRedis(holds[c].jti)

Exchanged == \A j \in Jtis : "redis" \in exchanged[j] => KeptInRedis(j)

\* A caller that goes on has not learned of the token: MySQL never says no, and
\* Redis says it only of what it does not keep any more.
Unseen ==
  \A c \in Callers :
    /\ step[c] \in {"mysql?", "check"} /\ "redis" \in known[c] =>
         "redis" \in blind[c] \/ issued[holds[c].jti].exp <= clock
    /\ step[c] = "check" => "mysql" \in blind[c]

TokensIInv == TokensTypeOK /\ Held /\ Exchanged /\ Unseen

LEMMA TokensInitIInv == TokensInit => TokensIInv
  BY DEF TokensInit, TokensIInv, TokensTypeOK, Held, Exchanged, Unseen, Steps

\* A token of ours keeps its claims.
LEMMA IssueKeeps ==
  ASSUME TokensIInv, NEW nick \in BOOLEAN, Issue(nick)
  PROVE  /\ issued' \in [Jtis -> [exp : Nat, nick : BOOLEAN] \cup {None}]
         /\ \A j \in Jtis : issued[j] # None => issued'[j] = issued[j]
  <1>1. Lifetime \in Nat
    BY TokensAssumption
  <1>2. PICK j \in Jtis :
          /\ issued[j] = None
          /\ issued' = [issued EXCEPT ![j] = [exp |-> clock + Lifetime, nick |-> nick]]
    BY DEF Issue
  <1>3. [exp |-> clock + Lifetime, nick |-> nick] \in [exp : Nat, nick : BOOLEAN]
    BY <1>1 DEF TokensIInv, TokensTypeOK
  <1> QED
    BY <1>2, <1>3 DEF TokensIInv, TokensTypeOK

\* It is all that a step does to what Redis keeps and callers have learned.
LEMMA IssuedIInv ==
  ASSUME TokensIInv, issued' \in [Jtis -> [exp : Nat, nick : BOOLEAN] \cup {None}],
         \A j \in Jtis : issued[j] # None => issued'[j] = issued[j],
         UNCHANGED <<redisUntil, step, holds, blind, known, exchanged>>,
         clock' \in Nat, clock <= clock',
         verdict' \in [Callers -> {"none", "refused", "accepted"}]
  PROVE  TokensIInv'
  <1>1. TokensTypeOK'
    BY DEF TokensIInv, TokensTypeOK
  <1>2. \A j \in Jtis : KeptInRedis(j) => KeptInRedis(j)'
    BY DEF KeptInRedis
  <1>3. Held' /\ Exchanged'
    BY <1>2 DEF TokensIInv, Held, Exchanged
  <1>4. Unseen'
    BY DEF TokensIInv, TokensTypeOK, Held, Unseen
  <1> QED
    BY <1>1, <1>3, <1>4 DEF TokensIInv

LEMMA BeginVerifyIInv ==
  ASSUME TokensIInv, NEW c \in Callers, BeginVerify(c)
  PROVE  TokensIInv'
  <1>1. /\ step' = [step EXCEPT ![c] = "redis?"] /\ blind' = [blind EXCEPT ![c] = {}]
        /\ verdict' = [verdict EXCEPT ![c] = "none"]
        /\ UNCHANGED <<clock, issued, redisUntil, exchanged>>
    BY DEF BeginVerify, To
  <1>2. PICK j \in Jtis, refresh \in BOOLEAN :
          /\ issued[j] # None
          /\ holds' = [holds EXCEPT ![c] = [jti |-> j, refresh |-> refresh, took |-> {}]]
          /\ known' = [known EXCEPT ![c] = exchanged[j]]
    BY DEF BeginVerify
  <1>3. TokensTypeOK'
    BY <1>1, <1>2 DEF TokensIInv, TokensTypeOK, Steps
  <1>4. Held' /\ Exchanged'
    BY <1>1, <1>2 DEF TokensIInv, TokensTypeOK, Held, Exchanged, KeptInRedis
  <1>5. Unseen'
    BY <1>1, <1>2 DEF TokensIInv, TokensTypeOK, Unseen
  <1> QED
    BY <1>3, <1>4, <1>5 DEF TokensIInv

LEMMA AskRedisIInv ==
  ASSUME TokensIInv, NEW c \in Callers, AskRedis(c)
  PROVE  TokensIInv'
  <1>1. /\ step[c] = "redis?" /\ UNCHANGED <<clock, issued, redisUntil, holds, exchanged, known>>
        /\ \/ /\ step' = [step EXCEPT ![c] = "start"] /\ UNCHANGED blind
              /\ verdict' = [verdict EXCEPT ![c] = "refused"]
           \/ /\ step' = [step EXCEPT ![c] = "mysql?"] /\ NotInRedis(holds[c].jti)
              /\ UNCHANGED <<blind, verdict>>
           \/ /\ step' = [step EXCEPT ![c] = "mysql?"] /\ UNCHANGED verdict
              /\ blind' = [blind EXCEPT ![c] = @ \cup {"redis"}]
    BY DEF AskRedis, Refuse, To
  <1>2. TokensTypeOK'
    <2>1. blind[c] \cup {"redis"} \in SUBSET Stores
      BY DEF TokensIInv, TokensTypeOK, Stores
    <2>2. blind' \in [Callers -> SUBSET Stores]
      BY <1>1, <2>1 DEF TokensIInv, TokensTypeOK
    <2>3. /\ verdict' \in [Callers -> {"none", "refused", "accepted"}]
          /\ step' \in [Callers -> Steps]
      BY <1>1 DEF TokensIInv, TokensTypeOK, Steps
    <2> QED
      BY <1>1, <2>2, <2>3 DEF TokensIInv, TokensTypeOK
  <1>3. Held' /\ Exchanged'
    BY <1>1 DEF TokensIInv, TokensTypeOK, Held, Exchanged, KeptInRedis
  <1>4. Unseen'
    BY <1>1 DEF TokensIInv, TokensTypeOK, Held, Unseen, KeptInRedis, NotInRedis
  <1> QED
    BY <1>2, <1>3, <1>4 DEF TokensIInv

LEMMA AskMySQLIInv ==
  ASSUME TokensIInv, NEW c \in Callers, AskMySQL(c)
  PROVE  TokensIInv'
  <1>1. /\ step[c] = "mysql?" /\ UNCHANGED <<clock, issued, redisUntil, holds, exchanged, known>>
        /\ \/ /\ step' = [step EXCEPT ![c] = "start"] /\ UNCHANGED blind
              /\ verdict' = [verdict EXCEPT ![c] = "refused"]
           \/ /\ step' = [step EXCEPT ![c] = "check"] /\ UNCHANGED verdict
              /\ blind' = [blind EXCEPT ![c] = @ \cup {"mysql"}]
    BY DEF AskMySQL, Refuse, To
  <1>2. TokensTypeOK'
    <2>1. blind[c] \cup {"mysql"} \in SUBSET Stores
      BY DEF TokensIInv, TokensTypeOK, Stores
    <2>2. blind' \in [Callers -> SUBSET Stores]
      BY <1>1, <2>1 DEF TokensIInv, TokensTypeOK
    <2>3. /\ verdict' \in [Callers -> {"none", "refused", "accepted"}]
          /\ step' \in [Callers -> Steps]
      BY <1>1 DEF TokensIInv, TokensTypeOK, Steps
    <2> QED
      BY <1>1, <2>2, <2>3 DEF TokensIInv, TokensTypeOK
  <1>3. Held' /\ Exchanged'
    BY <1>1 DEF TokensIInv, TokensTypeOK, Held, Exchanged, KeptInRedis
  <1>4. Unseen'
    BY <1>1 DEF TokensIInv, TokensTypeOK, Unseen
  <1> QED
    BY <1>2, <1>3, <1>4 DEF TokensIInv

\* refreshToken() of a token that passes the check issues the new one.
LEMMA CheckTokenIInv ==
  ASSUME TokensIInv, NEW c \in Callers, CheckToken(c)
  PROVE  TokensIInv'
  <1>1. /\ step[c] = "check"
        /\ UNCHANGED <<clock, redisUntil, holds, blind, exchanged, known>>
        /\ \E to \in {"start", "redis!"} : step' = [step EXCEPT ![c] = to]
        /\ \E v \in {"refused", "accepted"} : verdict' = [verdict EXCEPT ![c] = v]
    BY DEF CheckToken, Refuse, To
  <1>2. holds[c].jti \in Jtis /\ issued[holds[c].jti] # None
    BY <1>1 DEF TokensIInv, Held
  <1>3. /\ issued' \in [Jtis -> [exp : Nat, nick : BOOLEAN] \cup {None}]
        /\ \A j \in Jtis : issued[j] # None => issued'[j] = issued[j]
    <2>1. UNCHANGED issued \/ Issue(issued[holds[c].jti].nick)
      BY DEF CheckToken
    <2>2. issued[holds[c].jti].nick \in BOOLEAN
      BY <1>2 DEF TokensIInv, TokensTypeOK
    <2> QED
      BY <2>1, <2>2, IssueKeeps DEF TokensIInv, TokensTypeOK
  <1>4. TokensTypeOK'
    BY <1>1, <1>3 DEF TokensIInv, TokensTypeOK, Steps
  <1>5. \A j \in Jtis : KeptInRedis(j) => KeptInRedis(j)'
    BY <1>1, <1>3 DEF KeptInRedis
  <1>6. Held' /\ Exchanged'
    BY <1>1, <1>3, <1>5 DEF TokensIInv, TokensTypeOK, Held, Exchanged
  <1>7. Unseen'
    BY <1>1, <1>3 DEF TokensIInv, TokensTypeOK, Held, Unseen
  <1> QED
    BY <1>4, <1>6, <1>7 DEF TokensIInv

LEMMA TellRedisIInv ==
  ASSUME TokensIInv, NEW c \in Callers, TellRedis(c)
  PROVE  TokensIInv'
  <1>0. PICK j : j = holds[c].jti
    OBVIOUS
  <1>1. /\ step[c] = "redis!" /\ step' = [step EXCEPT ![c] = "mysql!"]
        /\ UNCHANGED <<clock, issued, blind, verdict, exchanged, known>>
        /\ \/ /\ redisUntil' = [redisUntil EXCEPT ![j] = issued[j].exp]
              /\ holds' = [holds EXCEPT ![c].took = @ \cup {"redis"}]
           \/ UNCHANGED <<redisUntil, holds>>
    BY <1>0 DEF TellRedis, To
  <1>2. j \in Jtis /\ issued[j] \in [exp : Nat, nick : BOOLEAN] /\ issued[j] # None
    BY <1>0, <1>1 DEF TokensIInv, TokensTypeOK, Held
  <1>3. /\ \A d \in Callers : holds'[d].jti = holds[d].jti
        /\ \A d \in Callers \ {c} : holds'[d] = holds[d]
        /\ "redis" \in holds'[c].took => "redis" \in holds[c].took \/ KeptInRedis(j)'
        /\ holds' \in [Callers -> [jti : Jtis \cup {None}, refresh : BOOLEAN, took : SUBSET Stores]]
    <2>1. CASE UNCHANGED <<redisUntil, holds>>
      BY <2>1 DEF TokensIInv, TokensTypeOK
    <2>2. CASE /\ redisUntil' = [redisUntil EXCEPT ![j] = issued[j].exp]
               /\ holds' = [holds EXCEPT ![c].took = @ \cup {"redis"}]
      <3>1. holds[c].took \cup {"redis"} \in SUBSET Stores
        BY DEF TokensIInv, TokensTypeOK, Stores
      <3>2. KeptInRedis(j)'
        BY <1>1, <1>2, <2>2 DEF TokensIInv, TokensTypeOK, KeptInRedis
      <3> QED
        BY <2>2, <3>1, <3>2 DEF TokensIInv, TokensTypeOK
    <2> QED
      BY <1>1, <2>1, <2>2
  <1>4. TokensTypeOK'
    BY <1>1, <1>2, <1>3 DEF TokensIInv, TokensTypeOK, Steps
  <1>5. \A k \in Jtis : KeptInRedis(k) => KeptInRedis(k)'
    BY <1>1, <1>2 DEF KeptInRedis, TokensIInv, TokensTypeOK
  <1>6. Held'
    <2>1. \A d \in Callers : step'[d] # "start" => step[d] # "start"
      BY <1>1 DEF TokensIInv, TokensTypeOK
    <2> QED
      BY <1>0, <1>1, <1>3, <1>5, <2>1 DEF TokensIInv, Held
  <1>7. Exchanged' /\ Unseen'
    BY <1>1, <1>3, <1>5 DEF TokensIInv, TokensTypeOK, Exchanged, Unseen
  <1> QED
    BY <1>4, <1>6, <1>7 DEF TokensIInv

LEMMA TellMySQLIInv ==
  ASSUME TokensIInv, NEW c \in Callers, TellMySQL(c)
  PROVE  TokensIInv'
  <1> DEFINE j == holds[c].jti
  <1>1. /\ step[c] = "mysql!" /\ step' = [step EXCEPT ![c] = "start"]
        /\ UNCHANGED <<clock, issued, redisUntil, holds, blind, verdict, known>>
        /\ \E more \in SUBSET {"mysql"} :
             exchanged' = [exchanged EXCEPT ![j] = @ \cup holds[c].took \cup more]
    BY DEF TellMySQL, To
  <1>2. j \in Jtis /\ holds[c].took \subseteq Stores
        /\ ("redis" \in holds[c].took => KeptInRedis(j))
    BY <1>1 DEF TokensIInv, TokensTypeOK, Held
  <1> HIDE DEF j
  <1>3. TokensTypeOK'
    <2>1. \A more \in SUBSET {"mysql"} : exchanged[j] \cup holds[c].took \cup more \in SUBSET Stores
      BY <1>2 DEF TokensIInv, TokensTypeOK, Stores
    <2>2. exchanged' \in [Jtis -> SUBSET Stores]
      BY <1>1, <1>2, <2>1 DEF TokensIInv, TokensTypeOK
    <2>3. step' \in [Callers -> Steps]
      BY <1>1 DEF TokensIInv, TokensTypeOK, Steps
    <2> QED
      BY <1>1, <2>2, <2>3 DEF TokensIInv, TokensTypeOK
  <1>4. Exchanged'
    BY <1>1, <1>2 DEF TokensIInv, TokensTypeOK, Exchanged, KeptInRedis
  <1>5. Held' /\ Unseen'
    BY <1>1 DEF TokensIInv, TokensTypeOK, Held, Unseen, KeptInRedis
  <1> QED
    BY <1>3, <1>4, <1>5 DEF TokensIInv

LEMMA TokensNextIInv == TokensIInv /\ [TokensNext]_tokenVars => TokensIInv'
  <1> SUFFICES ASSUME TokensIInv, [TokensNext]_tokenVars PROVE TokensIInv'
    OBVIOUS
  <1>1. CASE IssueToken
    <2>1. PICK nick \in BOOLEAN : Issue(nick)
      BY <1>1 DEF IssueToken
    <2> QED
      BY <1>1, <2>1, IssueKeeps, IssuedIInv DEF IssueToken, TokensIInv, TokensTypeOK
  <1>2. CASE TickClock
    BY <1>2, IssuedIInv DEF TickClock, TokensIInv, TokensTypeOK
  <1>3. CASE UNCHANGED tokenVars
    BY <1>3, IssuedIInv DEF tokenVars, TokensIInv, TokensTypeOK
  <1> QED
    BY <1>1, <1>2, <1>3, BeginVerifyIInv, AskRedisIInv, AskMySQLIInv, CheckTokenIInv,
       TellRedisIInv, TellMySQLIInv
    DEF TokensNext

\* For any number of callers: what Redis keeps of a token, and what a caller that goes
\* on with its check has not been told (jwt_util.cc:553).
THEOREM TokensInvariant == TokensSpec => []TokensIInv
  BY TokensInitIInv, TokensNextIInv, PTL DEF TokensSpec

\* A token that was exchanged is accepted only if the stores that took it in could not
\* be asked, or in the second in which it expires (jwt_util.cc:553, 587).
THEOREM ExchangedAreRefused == TokensSpec => ExchangedIsRefused
  <1> DEFINE A == \A c \in Callers :
                    verdict[c] # "accepted" /\ verdict'[c] = "accepted" =>
                      \/ known[c] \subseteq blind[c]
                      \/ clock = issued[holds[c].jti].exp
  <1>1. TokensIInv /\ [TokensNext]_tokenVars => [A]_tokenVars
    <2> SUFFICES ASSUME TokensIInv, TokensNext, NEW c \in Callers,
                        verdict[c] # "accepted", verdict'[c] = "accepted"
                 PROVE  \/ known[c] \subseteq blind[c]
                        \/ clock = issued[holds[c].jti].exp
      BY DEF tokenVars
    <2>1. CheckToken(c) /\ Sound(holds[c].jti)
      <3>1. ASSUME NEW d \in Callers,
                   BeginVerify(d) \/ AskRedis(d) \/ AskMySQL(d) \/ TellRedis(d) \/ TellMySQL(d)
            PROVE  FALSE
        BY <3>1 DEF BeginVerify, AskRedis, AskMySQL, TellRedis, TellMySQL, Refuse, To,
                    TokensIInv, TokensTypeOK
      <3>2. ~IssueToken /\ ~TickClock
        BY DEF IssueToken, TickClock
      <3>3. PICK d \in Callers : CheckToken(d)
        BY <3>1, <3>2 DEF TokensNext
      <3>4. d = c /\ Sound(holds[c].jti)
        BY <3>3 DEF CheckToken, Refuse, TokensIInv, TokensTypeOK
      <3> QED
        BY <3>3, <3>4
    <2>2. step[c] = "check" /\ clock <= issued[holds[c].jti].exp
      BY <2>1 DEF CheckToken, Sound
    <2>3. holds[c].jti \in Jtis /\ issued[holds[c].jti].exp \in Nat /\ clock \in Nat
      BY <2>2 DEF TokensIInv, TokensTypeOK, Held
    <2>4. known[c] \subseteq {"redis", "mysql"} /\ "mysql" \in blind[c]
      BY <2>2 DEF TokensIInv, TokensTypeOK, Unseen, Stores
    <2>5. "redis" \in known[c] => "redis" \in blind[c] \/ issued[holds[c].jti].exp <= clock
      BY <2>2 DEF TokensIInv, Unseen
    <2> QED
      BY <2>2, <2>3, <2>4, <2>5
  <1> QED
    BY <1>1, TokensInvariant, PTL DEF TokensSpec, ExchangedIsRefused, A

-----------------------------------------------------------------------------
(* Lists: the inductive invariant.                                         *)

\* A row of the table, the posts there are, and the list the client reads.
EntryRows == [time : Nat, state : EntryStates, mine : BOOLEAN]
Created == {e \in Entries : entries[e] # Absent}
OnList == Listed(reader.filter)
\* What is newer than a post, and how many posts the pages turned hold.
Later(e) == {d \in OnList : entries[d].time > entries[e].time}
Turned == Offset(reader.page, PageSize(reader.size))
\* No two posts of the list are of one second.
ListedApart == \A d, e \in OnList : d # e => entries[d].time # entries[e].time

ListsTypeOK ==
  /\ entries \in [Entries -> {Absent} \cup EntryRows] /\ IsFiniteSet(Created)
  /\ now \in Nat
  /\ reader \in [filter : Filters, size : Int, page : Nat \ {0}]
  /\ lists \in {"idle", "reading", "over", "lost"}
  /\ left \in BOOLEAN
  /\ kept \subseteq OnList /\ (lists = "idle" => kept = {})

\* What was on the list all the time and has not been shown is behind the pages
\* that were: as many posts as they hold are newer.
Behind ==
  lists = "reading" /\ ~left /\ ListedApart =>
    \A e \in kept \ shown : Cardinality(Later(e)) >= Turned

ListsIInv ==
  /\ ListsTypeOK /\ Behind
  /\ lists = "over" /\ ~left /\ ListedApart => kept \subseteq shown

LEMMA Multiples ==
  ASSUME NEW p \in Nat \ {0}, NEW n \in Nat
  PROVE  (p - 1) * n \in Nat /\ ((p + 1) - 1) * n = (p - 1) * n + n
  OBVIOUS

\* The list is finite, for only finitely many posts were created.
LEMMA OnListIs ==
  ASSUME ListsTypeOK
  PROVE  /\ IsFiniteSet(OnList) /\ Cardinality(OnList) \in Nat
         /\ \A e \in OnList : e \in Entries /\ entries[e] \in EntryRows
                              /\ entries[e].time \in Nat
         /\ \A e \in OnList : Later(e) \in SUBSET OnList
         /\ \A e \in OnList : Cardinality(Later(e)) \in Nat
  <1>1. OnList \in SUBSET Created
    BY DEF OnList, Listed, Matches, Created
  <1>2. IsFiniteSet(OnList) /\ Cardinality(OnList) \in Nat
    BY <1>1, FS_Subset, FS_CardinalityType DEF ListsTypeOK
  <1>3. ASSUME NEW e \in OnList
        PROVE  e \in Entries /\ entries[e] \in EntryRows /\ entries[e].time \in Nat
    <2>1. e \in Entries /\ entries[e] # Absent
      BY <1>1 DEF Created
    <2>2. entries[e] \in EntryRows
      BY <2>1 DEF ListsTypeOK
    <2> QED
      BY <2>1, <2>2 DEF EntryRows
  <1>4. \A e \in OnList : Later(e) \in SUBSET OnList
    BY DEF Later
  <1>5. \A e \in OnList : Cardinality(Later(e)) \in Nat
    BY <1>2, <1>4, FS_Subset, FS_CardinalityType
  <1> QED
    BY <1>2, <1>3, <1>4, <1>5

\* Where a post stands on the list: as far behind as there are newer ones.
LEMMA Placed ==
  ASSUME ListsTypeOK, ListedApart, NEW s \in Orderings(OnList)
  PROVE  /\ s \in Seq(OnList) /\ ToSet(s) = OnList
         /\ \A i \in 1..Len(s) : Cardinality(Later(s[i])) = i - 1
  <1> DEFINE n == Cardinality(OnList)
             f == [i \in 1..n |-> entries[s[i]].time]
  <1>1. /\ s \in [1..n -> OnList]
        /\ \A i, j \in 1..n : i # j => s[i] # s[j]
        /\ \A i \in 1..Len(s) - 1 : entries[s[i]].time >= entries[s[i + 1]].time
    BY DEF Orderings, SetToSeqs
  <1>2. s \in Seq(OnList) /\ ToSet(s) = OnList
    BY <1>1, OnListIs, ListsAll
  <1>3. Len(s) = n /\ n \in Nat
    BY <1>1, <1>2, OnListIs, LenProperties
  <1> HIDE DEF n
  <1>4. f \in [1..n -> Nat] /\ \A i \in 1..n : f[i] = entries[s[i]].time
    <2>1. \A i \in 1..n : entries[s[i]].time \in Nat
      BY <1>1, OnListIs
    <2> QED
      BY <2>1
  <1>5. \A i \in 1..(n - 1) : f[i] >= f[i + 1]
    <2>1. \A i \in 1..(n - 1) : i \in 1..n /\ i + 1 \in 1..n
      BY <1>3
    <2> QED
      BY <1>1, <1>3, <1>4, <2>1
  <1> HIDE DEF f
  <1>6. \A i, j \in 1..n : i < j => f[i] >= f[j]
    BY <1>3, <1>4, <1>5, GoesDown
  <1>7. \A i, j \in 1..n : i # j => f[i] # f[j]
    BY <1>1, <1>4 DEF ListedApart
  <1>8. \A i, j \in 1..n : i < j <=> f[i] > f[j]
    <2> SUFFICES ASSUME NEW i \in 1..n, NEW j \in 1..n PROVE i < j <=> f[i] > f[j]
      OBVIOUS
    <2>1. f[i] \in Nat /\ f[j] \in Nat /\ i \in Nat /\ j \in Nat
      BY <1>3, <1>4
    <2>2. (i < j => f[i] >= f[j]) /\ (j < i => f[j] >= f[i]) /\ (i # j => f[i] # f[j])
      BY <1>6, <1>7
    <2> QED
      BY <2>1, <2>2
  <1>9. ASSUME NEW i \in 1..n PROVE Cardinality(Later(s[i])) = i - 1
    <2> DEFINE g == [j \in 1..(i - 1) |-> s[j]]
    <2>1. i - 1 \in Nat /\ \A j \in 1..n : j \in 1..(i - 1) <=> j < i
      BY <1>3
    <2>2. \A j \in 1..(i - 1) : j \in 1..n
      BY <1>3
    <2>3. \A j \in 1..n : s[j] \in Later(s[i]) <=> j < i
      BY <1>1, <1>4, <1>8 DEF Later
    <2>4. g \in [1..(i - 1) -> Later(s[i])]
      BY <2>1, <2>2, <2>3
    <2>5. \A j, k \in 1..(i - 1) : g[j] = g[k] => j = k
      BY <1>1, <2>2
    <2>6. ASSUME NEW d \in Later(s[i]) PROVE \E j \in 1..(i - 1) : g[j] = d
      <3>1. d \in ToSet(s)
        BY <1>2 DEF Later
      <3>2. PICK j \in 1..n : s[j] = d
        BY <1>1, <3>1 DEF ToSet
      <3> QED
        BY <2>1, <2>3, <3>2
    <2> HIDE DEF g
    <2>7. g \in Bijection(1..(i - 1), Later(s[i]))
      BY <2>4, <2>5, <2>6 DEF Bijection, Injection, Surjection, IsInjective
    <2>8. ExistsBijection(1..(i - 1), Later(s[i]))
      BY <2>7 DEF ExistsBijection
    <2>9. IsFiniteSet(1..(i - 1)) /\ Cardinality(1..(i - 1)) = i - 1
      BY <2>1, FS_Interval
    <2> QED
      BY <2>8, <2>9, FS_Bijection
  <1> QED
    BY <1>2, <1>3, <1>9

LEMMA PageSizeIs ==
  ASSUME NEW n \in Int PROVE PageSize(n) \in Nat /\ PageSize(n) >= 1
  BY DEF PageSize

LEMMA TurnedIs ==
  ASSUME ListsTypeOK
  PROVE  /\ Turned \in Nat /\ PageSize(reader.size) \in Nat /\ PageSize(reader.size) >= 1
         /\ Offset(reader.page + 1, PageSize(reader.size)) = Turned + PageSize(reader.size)
  <1>1. reader.page \in Nat \ {0} /\ reader.size \in Int
    BY DEF ListsTypeOK
  <1>2. PageSize(reader.size) \in Nat /\ PageSize(reader.size) >= 1
    BY <1>1, PageSizeIs
  <1> QED
    BY <1>1, <1>2, Multiples DEF Turned, Offset

LEMMA ShortestOf ==
  ASSUME NEW a \in Int, NEW b \in Int
  PROVE  Min({a, b}) = IF a <= b THEN a ELSE b
  BY DEF Min

\* The entries of a page are those whose places follow the pages before.
LEMMA CutEntries ==
  ASSUME NEW S, NEW s \in Seq(S), NEW off \in Nat, NEW n \in Nat \ {0},
         NEW i \in 1..Len(s), i > off
  PROVE  LET page == SubSeq(s, off + 1, Min({off + n, Len(s)}))
         IN  page # <<>> /\ (i <= off + n => s[i] \in ToSet(page))
  <1> DEFINE m == Min({off + n, Len(s)})
             page == SubSeq(s, off + 1, m)
  <1>1. /\ m \in Nat /\ m <= Len(s) /\ m > off /\ Len(s) \in Nat /\ i \in Nat
        /\ i <= off + n => i <= m
    BY ShortestOf
  <1> HIDE DEF m
  <1>2. /\ page \in Seq(S) /\ Len(page) = m - off
        /\ \A k \in 1..(m - off) : page[k] = s[off + k]
    <2>1. off + 1 \in 1..Len(s) /\ m \in off..Len(s) /\ off + 1 <= m + 1
      BY <1>1
    <2>2. /\ page \in Seq(S)
          /\ Len(page) = IF off + 1 <= m THEN m - (off + 1) + 1 ELSE 0
          /\ \A k \in 1..(m - (off + 1) + 1) : page[k] = s[(off + 1) + k - 1]
      BY <1>1, <2>1, SubSeqProperties
    <2>3. off + 1 <= m /\ m - (off + 1) + 1 = m - off
      BY <1>1
    <2>4. \A k \in 1..(m - off) : (off + 1) + k - 1 = off + k
      BY <1>1
    <2> QED
      BY <2>2, <2>3, <2>4
  <1> HIDE DEF page
  <1>3. page # <<>>
    <2>1. m - off > 0
      BY <1>1
    <2> QED
      BY <1>2, <2>1
  <1>4. ASSUME i <= off + n PROVE s[i] \in ToSet(page)
    <2>1. i - off \in 1..(m - off) /\ off + (i - off) = i
      BY <1>1, <1>4
    <2>2. page[i - off] = s[i]
      BY <1>2, <2>1
    <2>3. i - off \in DOMAIN page
      BY <1>2, <2>1, LenProperties
    <2> QED
      BY <2>2, <2>3 DEF ToSet
  <1> QED
    BY <1>3, <1>4 DEF page, m

LEMMA ListsInitIInv == ListsInit => ListsIInv
  <1> SUFFICES ASSUME ListsInit PROVE ListsIInv
    OBVIOUS
  <1> USE DEF ListsInit
  <1>1. entries \in [Entries -> {Absent} \cup EntryRows]
    OBVIOUS
  <1>2. Created = {} /\ IsFiniteSet(Created)
    BY FS_EmptySet DEF Created
  <1>3. reader \in [filter : Filters, size : Int, page : Nat \ {0}]
    BY DEF Filters
  <1>4. ListsTypeOK
    BY <1>1, <1>2, <1>3 DEF ListsTypeOK
  <1> QED
    BY <1>4 DEF ListsIInv, Behind

LEMMA OpenListIInv ==
  ASSUME ListsIInv, OpenList PROVE ListsIInv'
  <1> USE DEF ListsIInv
  <1>1. /\ lists' = "reading" /\ UNCHANGED <<entries, now, shown, left>>
        /\ reader' \in [filter : Filters, size : Int, page : Nat \ {0}]
        /\ kept' = Listed(reader'.filter) /\ reader'.page = 1
    <2>1. PICK f \in Filters, n \in Sizes :
            reader' = [filter |-> f, size |-> n, page |-> 1] /\ kept' = Listed(f)
      BY DEF OpenList
    <2>2. n \in Int
      BY ListsAssumption
    <2> QED
      BY <2>1, <2>2 DEF OpenList
  <1>2. kept' = OnList'
    BY <1>1 DEF OnList, Listed, Matches
  <1>3. Created' = Created
    BY <1>1 DEF Created
  <1>4. ListsTypeOK'
    BY <1>1, <1>2, <1>3 DEF ListsTypeOK
  <1>5. Turned' = 0
    <2>1. PageSize(reader'.size) \in Nat
      BY <1>1, PageSizeIs
    <2>2. Turned' = (reader'.page - 1) * PageSize(reader'.size)
      BY DEF Turned, Offset, PageSize
    <2> QED
      BY <1>1, <2>1, <2>2
  <1>6. \A e \in kept' : Cardinality(Later(e)') >= 0
    <2>1. ASSUME NEW e \in kept' PROVE Later(e)' \in SUBSET Created'
      BY DEF Later, OnList, Listed, Matches, Created
    <2>2. IsFiniteSet(Created')
      BY <1>4 DEF ListsTypeOK
    <2>3. ASSUME NEW e \in kept' PROVE Cardinality(Later(e)') >= 0
      <3>1. PICK L : L = Later(e)'
        OBVIOUS
      <3>2. Cardinality(L) \in Nat
        BY <2>1, <2>2, <3>1, FS_Subset, FS_CardinalityType
      <3> QED
        BY <3>1, <3>2
    <2> QED
      BY <2>3
  <1>7. Behind'
    BY <1>5, <1>6 DEF Behind
  <1> QED
    BY <1>1, <1>4, <1>7

\* Whoever is behind the pages turned is on the next one, or behind that too.
LEMMA ReadPageIInv ==
  ASSUME ListsIInv, ReadPage PROVE ListsIInv'
  <1> USE DEF ListsIInv
  <1> DEFINE n == PageSize(reader.size)
  <1>1. PICK s \in Orderings(OnList) :
          /\ shown' = shown \cup ToSet(Cut(s, reader.page, n))
          /\ reader' = [reader EXCEPT !.page = @ + 1]
          /\ lists' = IF Cut(s, reader.page, n) = <<>> THEN "over" ELSE lists
    BY DEF ReadPage, OnList
  <1>2. lists = "reading" /\ UNCHANGED <<entries, now, kept, left>>
    BY DEF ReadPage
  <1>3. /\ reader' \in [filter : Filters, size : Int, page : Nat \ {0}]
        /\ reader'.filter = reader.filter /\ reader'.size = reader.size
        /\ reader'.page = reader.page + 1
    <2>1. reader \in [filter : Filters, size : Int, page : Nat \ {0}]
      BY DEF ListsTypeOK
    <2>2. reader.page + 1 \in Nat \ {0}
      BY <2>1
    <2> QED
      BY <1>1, <2>1, <2>2
  <1>4. /\ OnList' = OnList /\ Created' = Created /\ (ListedApart' <=> ListedApart)
        /\ \A e : Later(e)' = Later(e)
    BY <1>2, <1>3 DEF OnList, Listed, Matches, Created, ListedApart, Later
  <1>5. ListsTypeOK'
    <2>1. lists' \in {"reading", "over"}
      BY <1>1, <1>2
    <2> QED
      BY <1>2, <1>3, <1>4, <2>1 DEF ListsTypeOK
  <1>6. /\ Turned \in Nat /\ n \in Nat \ {0} /\ Turned' = Turned + n
        /\ Turned = Offset(reader.page, n)
    <2>1. Turned' = Offset(reader.page + 1, n)
      BY <1>3 DEF Turned, Offset, PageSize
    <2> QED
      BY <2>1, TurnedIs DEF Turned
  <1> HIDE DEF n
  <1>7. ASSUME ~left, ListedApart, NEW e \in kept \ shown
        PROVE  /\ Cut(s, reader.page, n) # <<>>
               /\ e \notin ToSet(Cut(s, reader.page, n)) =>
                    Cardinality(Later(e)) >= Turned + n
    <2>1. /\ s \in Seq(OnList) /\ ToSet(s) = OnList
          /\ \A i \in 1..Len(s) : Cardinality(Later(s[i])) = i - 1
      BY <1>7, Placed
    <2>2. e \in OnList
      BY DEF ListsTypeOK
    <2>3. PICK i \in 1..Len(s) : s[i] = e
      BY <2>1, <2>2, LenProperties DEF ToSet
    <2>4. Cardinality(Later(e)) = i - 1 /\ i - 1 >= Turned
      BY <1>2, <2>1, <2>3, <1>7 DEF Behind
    <2>5. i \in Nat /\ i > Turned
      BY <1>6, <2>3, <2>4
    <2>6. /\ Cut(s, reader.page, n) # <<>>
          /\ i <= Turned + n => e \in ToSet(Cut(s, reader.page, n))
      BY <1>6, <2>1, <2>3, <2>5, CutEntries DEF Cut
    <2>7. ASSUME ~(i <= Turned + n) PROVE Cardinality(Later(e)) >= Turned + n
      BY <1>6, <2>4, <2>5, <2>7
    <2> QED
      BY <2>6, <2>7
  <1>8. Behind'
    <2> SUFFICES ASSUME ~left', ListedApart', NEW e \in kept' \ shown'
                 PROVE  Cardinality(Later(e)') >= Turned'
      BY DEF Behind
    <2>1. /\ ~left /\ ListedApart /\ e \in kept \ shown
          /\ e \notin ToSet(Cut(s, reader.page, n))
      BY <1>1, <1>2, <1>4
    <2> QED
      BY <1>4, <1>6, <1>7, <2>1
  <1>9. lists' = "over" /\ ~left' /\ ListedApart' => kept' \subseteq shown'
    <2> SUFFICES ASSUME lists' = "over", ~left', ListedApart', NEW e \in kept', e \notin shown'
                 PROVE  FALSE
      OBVIOUS
    <2>1. ~left /\ ListedApart /\ e \in kept \ shown
      BY <1>1, <1>2, <1>4
    <2>2. Cut(s, reader.page, n) = <<>>
      BY <1>1, <1>2
    <2> QED
      BY <1>7, <2>1, <2>2
  <1> QED
    BY <1>5, <1>8, <1>9

\* A write to the table: those behind the pages stay there, for nothing leaves
\* the list, and a post keeps its time.
LEMMA FollowIInv ==
  ASSUME ListsIInv, NEW table \in [Entries -> {Absent} \cup EntryRows], Follow(table),
         IsFiniteSet({e \in Entries : table[e] # Absent}),
         \A e \in Entries : entries[e] # Absent => table[e].time = entries[e].time,
         lists \in {"idle", "reading"}, now' = now
  PROVE  ListsIInv'
  <1> USE DEF ListsIInv
  <1>1. /\ entries' = table /\ UNCHANGED <<reader, shown, lists>>
        /\ OnList' = {e \in Entries : Matches(table[e], reader.filter)}
        /\ kept' = kept \cap OnList'
        /\ left' = (left \/ (lists = "reading" /\ ~(OnList \subseteq OnList')))
    BY DEF Follow, OnList, Listed, Matches
  <1>2. Created' = {e \in Entries : table[e] # Absent}
    BY <1>1 DEF Created
  <1>3. ListsTypeOK'
    BY <1>1, <1>2 DEF ListsTypeOK
  <1>4. Turned' = Turned
    BY <1>1 DEF Turned, Offset, PageSize
  <1>5. ASSUME lists = "reading", ~left', ListedApart', NEW e \in kept' \ shown'
        PROVE  Cardinality(Later(e)') >= Turned'
    <2>1. ~left /\ OnList \subseteq OnList' /\ e \in kept \ shown /\ e \in OnList
      BY <1>1, <1>5 DEF ListsTypeOK
    <2>2. \A d \in OnList : entries'[d].time = entries[d].time
      BY <1>1 DEF OnList, Listed, Matches
    <2>3. ListedApart
      BY <1>5, <2>1, <2>2 DEF ListedApart
    <2>4. Later(e) \in SUBSET (Later(e)')
      BY <2>1, <2>2 DEF Later
    <2>5. Later(e)' \in SUBSET (Created') /\ IsFiniteSet(Created')
      BY <1>3 DEF Later, OnList, Listed, Matches, Created, ListsTypeOK
    <2>6. PICK L : L = Later(e)'
      OBVIOUS
    <2>7. IsFiniteSet(L) /\ Cardinality(L) \in Nat /\ Cardinality(Later(e)) <= Cardinality(L)
      BY <2>4, <2>5, <2>6, FS_Subset, FS_CardinalityType
    <2>8. Cardinality(Later(e)) >= Turned /\ Turned \in Nat /\ Cardinality(Later(e)) \in Nat
      BY <1>5, <2>1, <2>3, TurnedIs, OnListIs DEF Behind
    <2> QED
      BY <1>4, <2>6, <2>7, <2>8
  <1> QED
    BY <1>1, <1>3, <1>5 DEF Behind

LEMMA NewEntryIInv ==
  ASSUME ListsIInv, NewEntry PROVE ListsIInv'
  <1>1. PICK e \in Entries, state \in {"draft", "published"}, mine \in BOOLEAN :
          /\ entries[e] = Absent
          /\ Follow([entries EXCEPT ![e] = [time |-> now, state |-> state, mine |-> mine]])
    BY DEF NewEntry
  <1> DEFINE row == [time |-> now, state |-> state, mine |-> mine]
             table == [entries EXCEPT ![e] = row]
  <1>2. ListsTypeOK /\ now' = now /\ lists \in {"idle", "reading"}
    BY DEF NewEntry, ListsIInv
  <1>3. row \in EntryRows
    BY <1>2 DEF EntryRows, EntryStates, ListsTypeOK
  <1> HIDE DEF row
  <1>4. /\ table \in [Entries -> {Absent} \cup EntryRows]
        /\ \A d \in Entries : entries[d] # Absent => table[d] = entries[d]
        /\ \A d \in Entries : d # e => table[d] = entries[d]
    BY <1>1, <1>2, <1>3 DEF ListsTypeOK
  <1>5. IsFiniteSet({d \in Entries : table[d] # Absent})
    <2>1. IsFiniteSet(Created \cup {e})
      BY <1>2, FS_AddElement DEF ListsTypeOK
    <2>2. {d \in Entries : table[d] # Absent} \in SUBSET (Created \cup {e})
      BY <1>4 DEF Created
    <2> QED
      BY <2>1, <2>2, FS_Subset
  <1>6. Follow(table)
    BY <1>1 DEF row
  <1> HIDE DEF table
  <1> QED
    BY <1>2, <1>4, <1>5, <1>6, FollowIInv

LEMMA ChangeEntryIInv ==
  ASSUME ListsIInv, ChangeEntry PROVE ListsIInv'
  <1>1. PICK e \in Entries, state \in EntryStates :
          entries[e] # Absent /\ Follow([entries EXCEPT ![e].state = state])
    BY DEF ChangeEntry
  <1> DEFINE table == [entries EXCEPT ![e].state = state]
  <1>2. ListsTypeOK /\ now' = now /\ lists \in {"idle", "reading"}
    BY DEF ChangeEntry, ListsIInv
  <1>3. entries[e] \in EntryRows
    BY <1>1, <1>2 DEF ListsTypeOK
  <1>4. table[e] \in EntryRows /\ table[e].time = entries[e].time
    BY <1>2, <1>3 DEF EntryRows, ListsTypeOK
  <1>5. table \in [Entries -> {Absent} \cup EntryRows]
        /\ \A d \in Entries : d # e => table[d] = entries[d]
    BY <1>2, <1>4 DEF ListsTypeOK
  <1>6. Follow(table)
    BY <1>1
  <1> HIDE DEF table
  <1>7. IsFiniteSet({d \in Entries : table[d] # Absent})
    <2>1. {d \in Entries : table[d] # Absent} \in SUBSET Created
      BY <1>1, <1>5 DEF Created
    <2> QED
      BY <1>2, <2>1, FS_Subset DEF ListsTypeOK
  <1>8. \A d \in Entries : entries[d] # Absent => table[d].time = entries[d].time
    BY <1>4, <1>5
  <1> QED
    BY <1>2, <1>5, <1>6, <1>7, <1>8, FollowIInv

LEMMA ListsNextIInv == ListsIInv /\ [ListsNext]_listVars => ListsIInv'
  <1> SUFFICES ASSUME ListsIInv, [ListsNext]_listVars PROVE ListsIInv'
    OBVIOUS
  <1>1. CASE OpenList
    BY <1>1, OpenListIInv
  <1>2. CASE ReadPage
    BY <1>2, ReadPageIInv
  <1>3. CASE NewEntry
    BY <1>3, NewEntryIInv
  <1>4. CASE ChangeEntry
    BY <1>4, ChangeEntryIInv
  <1>5. ASSUME LosePage \/ Tick \/ UNCHANGED listVars PROVE ListsIInv'
    <2>1. UNCHANGED <<entries, reader, shown, kept, left>>
      BY <1>5 DEF LosePage, Tick, listVars
    <2>2. /\ now' \in Nat /\ lists' \in {"idle", "reading", "over", "lost"}
          /\ lists' = lists \/ (lists = "reading" /\ lists' = "lost")
      BY <1>5 DEF LosePage, Tick, listVars, ListsIInv, ListsTypeOK
    <2>3. /\ OnList' = OnList /\ Created' = Created /\ (ListedApart' <=> ListedApart)
          /\ Turned' = Turned /\ \A e : Later(e)' = Later(e)
      BY <2>1 DEF OnList, Listed, Matches, Created, ListedApart, Turned, Offset, PageSize, Later
    <2>4. ListsTypeOK'
      BY <2>1, <2>2, <2>3 DEF ListsIInv, ListsTypeOK
    <2>5. Behind'
      BY <2>1, <2>2, <2>3 DEF ListsIInv, Behind
    <2> QED
      BY <2>1, <2>2, <2>3, <2>4, <2>5 DEF ListsIInv
  <1> QED
    BY <1>1, <1>2, <1>3, <1>4, <1>5 DEF ListsNext

\* In every state ListsIInv holds of the list being read.
THEOREM ListsInvariant == ListsSpec => []ListsIInv
  BY ListsInitIInv, ListsNextIInv, PTL DEF ListsSpec

\* getBlogList(), page after page up to an empty one: no post is missed that was
\* on the list all the time, unless posts share a second or one leaves the list.
THEOREM NothingIsSkipped == ListsSpec => []NothingSkipped
  <1>1. ListsIInv => NothingSkipped
    BY DEF ListsIInv, NothingSkipped, Distinct, ListedApart, OnList, Listed, Matches
  <1> QED
    BY <1>1, ListsInvariant, PTL
=============================================================================
