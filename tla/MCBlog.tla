------------------------------- MODULE MCBlog -------------------------------
(***************************************************************************)
(* The parts of the blog, each for itself: in a behaviour one of them      *)
(* moves, and the others rest in their first states.                       *)
(***************************************************************************)
EXTENDS Posts, Accounts, Lists, Tokens, TLC

VARIABLE part

\* The sets of one part are taken for those of another as well.
Symmetry == Permutations(Requests) \cup Permutations(Users)

BlogInit ==
  /\ part \in {"posts", "accounts", "lists", "tokens"}
  /\ Init /\ AccountsInit /\ ListsInit /\ TokensInit
  /\ part # "posts" => rows = [p \in Posts |-> NoRow]
  /\ part # "accounts" => users = [i \in Ids |-> Nobody]
BlogNext ==
  /\ \/ part = "posts" /\ Next /\ UNCHANGED <<userVars, listVars, tokenVars>>
     \/ part = "accounts" /\ AccountsNext /\ UNCHANGED <<vars, listVars, tokenVars>>
     \/ part = "lists" /\ ListsNext /\ UNCHANGED <<vars, userVars, tokenVars>>
     \/ part = "tokens" /\ TokensNext /\ UNCHANGED <<vars, userVars, listVars>>
  /\ UNCHANGED part
BlogSpec == BlogInit /\ [][BlogNext]_<<part, vars, userVars, listVars, tokenVars>>
=============================================================================
