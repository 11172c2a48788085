------------------------------- MODULE Lists --------------------------------
(***************************************************************************)
(* The lists of posts: BlogListServlet and BlogListWithUserIdServlet, the  *)
(* service's getBlogList() and getUserBlogs() and the queries of BlogDao.  *)
(* A client turns the pages of a list one request at a time, while others  *)
(* create, publish and delete posts.  The order of a list is by the time   *)
(* of creation, in seconds, newest first; the database may return posts of *)
(* one second in any order, and in another one for the next page.          *)
(***************************************************************************)
EXTENDS Integers, Sequences, FiniteSetsExt, SequencesExt

CONSTANTS
  Entries,     \* the posts there may be
  Absent,      \* not created yet
  Sizes,       \* the values of page_size a client sends
  MaxTime      \* bound of the clock

ASSUME ListsAssumption == Sizes \subseteq Int /\ MaxTime \in Nat /\ Absent \notin Entries

\* What a client may list: of all states, of one state, or of one author.
Filters == {"all", "published", "author"}

EntryStates == {"draft", "published", "deleted"}

VARIABLES
  entries,     \* the table: time of creation, state, is it of that author
  now,         \* the clock
  reader,      \* the filter and the page_size the client uses, page is next
  shown,       \* the posts it was shown
  lists,       \* "idle", "reading", "over", "lost": a query failed
  kept,        \* history: the posts that are on the list since it began
  left         \* history: a post was taken off the list since it began

listVars == <<entries, now, reader, shown, lists, kept, left>>

ListsInit ==
  /\ entries = [e \in Entries |-> Absent]
  /\ now = 1
  /\ reader = [filter |-> "all", size |-> 1, page |-> 1]
  /\ shown = {} /\ kept = {}
  /\ lists = "idle" /\ left = FALSE

-----------------------------------------------------------------------------
(* A page.                                                                 *)

\* The WHERE of findPage(), findByStatus() and findByAuthor().
Matches(x, filter) ==
  /\ x # Absent
  /\ CASE filter = "all" -> x.state # "deleted"
       [] filter = "published" -> x.state = "published"
       [] filter = "author" -> x.mine /\ x.state # "deleted"

Listed(filter) == {e \in Entries : Matches(entries[e], filter)}

\* ORDER BY created_at DESC: what the database may return.
Orderings(S) ==
  {s \in SetToSeqs(S) :
     \A i \in 1 .. Len(s) - 1 : entries[s[i]].time >= entries[s[i + 1]].time}

\* Faulty: pages are counted from zero.
OffsetFromZero(page, size) == page * size

\* buildPaginationSQL(); getUserBlogs() and findByStatus() cut alike.
Offset(page, size) == (page - 1) * size

\* An offset beyond the end is an empty page.
Cut(s, page, size) ==
  SubSeq(s, Offset(page, size) + 1, Min({Offset(page, size) + size, Len(s)}))

\* getBlogList(): what it takes for a page_size that makes no sense.
PageSize(size) == IF size < 1 THEN 10 ELSE size

-----------------------------------------------------------------------------
\* A client begins with a list.
OpenList ==
  /\ lists = "idle"
  /\ \E f \in Filters, n \in Sizes :
       /\ reader' = [filter |-> f, size |-> n, page |-> 1]
       /\ kept' = Listed(f)
  /\ lists' = "reading"
  /\ UNCHANGED <<entries, now, shown, left>>

\* One page; an empty one ends the list.
ReadPage ==
  /\ lists = "reading"
  /\ \E s \in Orderings(Listed(reader.filter)) :
       LET page == Cut(s, reader.page, PageSize(reader.size))
       IN  /\ shown' = shown \cup ToSet(page)
           /\ reader' = [reader EXCEPT !.page = @ + 1]
           /\ lists' = IF page = <<>> THEN "over" ELSE lists
  /\ UNCHANGED <<entries, now, kept, left>>

\* A query that fails is answered like an empty page.
LosePage ==
  /\ lists = "reading" /\ lists' = "lost"
  /\ UNCHANGED <<entries, now, reader, shown, kept, left>>

\* What a write to the table means for the list that is being read.
Follow(table) ==
  LET after == {e \in Entries : Matches(table[e], reader.filter)}
  IN  /\ entries' = table
      /\ kept' = kept \cap after
      /\ left' = (left \/ (lists = "reading" /\ ~(Listed(reader.filter) \subseteq after)))
      /\ UNCHANGED <<reader, shown, lists>>

\* A post is created.
NewEntry ==
  /\ lists \in {"idle", "reading"}
  /\ \E e \in Entries : \E state \in {"draft", "published"}, mine \in BOOLEAN :
       /\ entries[e] = Absent
       /\ Follow([entries EXCEPT ![e] = [time |-> now, state |-> state, mine |-> mine]])
  /\ UNCHANGED now

\* A post is published, made a draft again or deleted.
ChangeEntry ==
  /\ lists \in {"idle", "reading"}
  /\ \E e \in Entries : \E state \in EntryStates :
       /\ entries[e] # Absent
       /\ Follow([entries EXCEPT ![e].state = state])
  /\ UNCHANGED now

Tick ==
  /\ now < MaxTime /\ now' = now + 1
  /\ UNCHANGED <<entries, reader, shown, lists, kept, left>>

ListsNext ==
  \/ OpenList \/ ReadPage \/ LosePage \/ NewEntry \/ ChangeEntry \/ Tick
  \/ lists \in {"over", "lost"} /\ UNCHANGED listVars

ListsSpec == ListsInit /\ [][ListsNext]_listVars
-----------------------------------------------------------------------------
\* No two posts were created in the same second.
Distinct ==
  \A d, e \in Entries :
    d # e /\ entries[d] # Absent /\ entries[e] # Absent
      => entries[d].time # entries[e].time

\* Who turns the pages up to an empty one has seen every post that was on the
\* list all the time, although posts appear, at the front and in the middle,
\* while they read: they only shift the rest towards the pages to come.  It
\* takes posts of one second (blog_dao.cc:288), or a post that leaves the list,
\* to miss one.
NothingSkipped ==
  lists = "over" /\ ~left /\ Distinct => kept \subseteq shown
=============================================================================
