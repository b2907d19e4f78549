---------------------------- MODULE PublishedTrees ----------------------------
(***************************************************************************)
(* What a reader of a remote pipeline is promised: the tree of files its    *)
(* entry leads to, whole or not at all.  Each file holds what its origin    *)
(* published at some moment since the reader asked; only a copy kept for an *)
(* immutable ref may have been damaged where it was kept.                   *)
(***************************************************************************)
EXTENDS FiniteSets

CONSTANTS
  Readers,
  Files,          \* host, owner, repository, ref and path
  Entry,          \* the file a pipeline is named by
  Immutable,      \* files at a full commit hash
  Versions,       \* file -> the contents its origin may publish
  References,     \* content -> the files its dot_file attributes name
  Damaged

VARIABLES
  origin,         \* what each origin serves now
  recent,         \* reader -> file -> what it has been since the reader asked
  tree            \* reader -> the files it was given

treeVars == <<origin, recent, tree>>

NoTree == <<>>
Nothing == [f \in Files |-> {}]

Named(content) == IF content = Damaged THEN {} ELSE References[content]

Whole(t) == Entry \in DOMAIN t /\ \A f \in DOMAIN t : Named(t[f]) \subseteq DOMAIN t

TreesInit ==
  /\ origin \in [Files -> UNION {Versions[f] : f \in Files}]
  /\ \A f \in Files : origin[f] \in Versions[f]
  /\ recent = [r \in Readers |-> Nothing]
  /\ tree = [r \in Readers |-> NoTree]

Published(f, c) ==
  /\ f \notin Immutable /\ c \in Versions[f]
  /\ origin' = [origin EXCEPT ![f] = c]
  /\ recent' = [r \in Readers |-> IF recent[r] = Nothing THEN Nothing
                                  ELSE [recent[r] EXCEPT ![f] = @ \cup {c}]]
  /\ UNCHANGED tree

Asks(r) ==
  /\ recent[r] = Nothing
  /\ recent' = [recent EXCEPT ![r] = [f \in Files |-> {origin[f]}]]
  /\ UNCHANGED <<origin, tree>>

Fresh(r, t) ==
  \A f \in DOMAIN t : t[f] \in recent[r][f] \/ (f \in Immutable /\ t[f] = Damaged)

(* tree'[r] may be any tree that is whole and fresh.                       *)
Deliver(r) ==
  /\ recent[r] # Nothing /\ tree[r] = NoTree
  /\ DOMAIN tree'[r] \subseteq Files
  /\ Whole(tree'[r]) /\ Fresh(r, tree'[r])
  /\ \A q \in Readers \ {r} : tree'[q] = tree[q]
  /\ UNCHANGED <<origin, recent>>

(* The reader is done with its tree, or gets none.                         *)
Release(r) ==
  /\ tree' = [tree EXCEPT ![r] = NoTree]
  /\ recent' = [recent EXCEPT ![r] = Nothing]
  /\ UNCHANGED origin

TreesNext ==
  \/ \E f \in Files : \E c \in Versions[f] : Published(f, c)
  \/ \E r \in Readers : Asks(r) \/ Deliver(r) \/ Release(r)

TreesSpec == TreesInit /\ [][TreesNext]_treeVars

===============================================================================
