----------------------------- MODULE RemoteSource -----------------------------
(***************************************************************************)
(* Pipelines read from a git host: materialize_remote_dot (remote_dot.py)   *)
(* walks the tree of DOT files an entry leads to, level by level, and reads *)
(* each file through BlobCache.get (cache.py) and fetch_blob (fetch.py).    *)
(* The cache is a directory that all walks, each a process of its own,      *)
(* share without a lock: blobs by the hash of their content, and per file a *)
(* ref that names a blob.  The steps are those between two awaits or two    *)
(* changes of the directory; a process may die between any two.             *)
(*                                                                         *)
(* A content stands for its hash and for the ETag the host gives it.        *)
(***************************************************************************)
EXTENDS Integers, FiniteSets, FiniteSetsExt

CONSTANTS
  Walks,
  Reloading,       \* walks under ATTRACTOR_RELOAD
  Files, Entry, Immutable, Versions, References, Damaged,   \* see PublishedTrees
  Heads,           \* what the origins may serve at first
  Broken,          \* contents with a syntax error or a reference out of bounds
  Size,            \* content -> its bytes
  Absent,
  MaxDepth, MaxFiles, MaxBytes, MaxConcurrency,   \* FetchLimits
  MaxAttempts,     \* _MAX_ATTEMPTS of fetch_blob
  MaxMoves,        \* bound on moves of the origins' branches
  MaxFaults        \* bound on damage to the cache directory

ASSUME RemoteAssumption ==
  /\ Entry \in Files /\ Immutable \subseteq Files /\ Reloading \subseteq Walks
  /\ {MaxDepth, MaxFiles, MaxBytes} \subseteq Nat
  /\ {MaxConcurrency, MaxAttempts} \subseteq Nat \ {0}

Contents == UNION {Versions[f] : f \in Files}

ASSUME ContentsAssumption ==
  /\ References \in [Contents -> SUBSET Files]
  /\ Damaged \notin Contents /\ Absent \notin Contents \cup {Damaged}   \* no bytes, no hash

ASSUME HeadsAssumption ==
  \A head \in Heads : head \in [Files -> Contents] /\ \A f \in Files : head[f] \in Versions[f]

VARIABLES
  origin,       \* what the host serves
  served,       \* walk -> file -> what it has been since the walk began
  blobs,        \* blobs/<sha>
  refs,         \* refs/<file>.json: a sha, which is the etag too
  phase,        \* of each walk
  frontier,     \* the files of the level it fetches
  depth,
  text,         \* the files of its view
  task,         \* the get call of each file of the level
  moves, faults,
  intact        \* walks that no damage to the directory has met

hostVars == <<origin, moves>>
dirVars == <<blobs, refs>>
diskVars == <<faults, intact>>
walkVars == <<phase, served, frontier, depth, text>>
vars == <<hostVars, dirVars, walkVars, task, diskVars>>

(* at: idle, asking, stored (the blob is, the ref is not), done or failed.  *)
(* known: the ref it read; empty once it has healed.                       *)
Idle == [at |-> "idle", known |-> Absent, content |-> Absent, attempts |-> 0]
Unasked == [f \in Files |-> {}]
NoTasks == [f \in Files |-> Idle]

Init ==
  /\ origin \in Heads
  /\ served = [w \in Walks |-> Unasked]
  /\ blobs = [c \in Contents |-> Absent]
  /\ refs = [f \in Files |-> Absent]
  /\ phase = [w \in Walks |-> "idle"]
  /\ frontier = [w \in Walks |-> {}] /\ depth = [w \in Walks |-> 0]
  /\ text = [w \in Walks |-> <<>>]
  /\ task = [w \in Walks |-> NoTasks]
  /\ moves = 0 /\ faults = 0 /\ intact = {}

-----------------------------------------------------------------------------
(* BlobCache.get and fetch_blob, for file f in walk w.                     *)

Becomes(w, f, t) == task' = [task EXCEPT ![w][f] = t]
Holds(w) == {f \in Files : task[w][f].at \in {"asking", "stored"}}
At(w, f, at) == task[w][f].at = at

(* The immutable fast path, which takes the blob as it is.                 *)
Fast(w, f) ==
  /\ refs[f] # Absent /\ w \notin Reloading /\ f \in Immutable
  /\ blobs[refs[f]] # Absent

(* A plausible slip: a ref that moves is believed too.                    *)
FastForAll(w, f) == refs[f] # Absent /\ w \notin Reloading /\ blobs[refs[f]] # Absent

TakesCached(w, f) == Fast(w, f)

Lookup(w, f) ==
  /\ phase[w] \in {"walking", "failed"}
  /\ f \in frontier[w] /\ At(w, f, "idle")
  /\ Cardinality(Holds(w)) < MaxConcurrency
  /\ Becomes(w, f, IF TakesCached(w, f)
                   THEN [Idle EXCEPT !.at = "done", !.content = blobs[refs[f]]]
                   ELSE [Idle EXCEPT !.at = "asking", !.known = refs[f]])
  /\ UNCHANGED <<hostVars, dirVars, walkVars, diskVars>>

(* A timeout, a transport error, a 5xx or a secondary rate limit.          *)
Retried(t) ==
  IF t.attempts + 1 < MaxAttempts THEN [t EXCEPT !.attempts = @ + 1] ELSE [Idle EXCEPT !.at = "failed"]

Transient(w, f) ==
  /\ At(w, f, "asking")
  /\ Becomes(w, f, Retried(task[w][f]))
  /\ UNCHANGED <<hostVars, dirVars, walkVars, diskVars>>

(* 304: the blob is hashed; a bad or missing one is fetched once more,      *)
(* without the etag.                                                       *)
NotModified(w, f) ==
  LET known == task[w][f].known IN
  /\ At(w, f, "asking") /\ known # Absent /\ known = origin[f]
  /\ Becomes(w, f, IF blobs[known] = known
                   THEN [Idle EXCEPT !.at = "done", !.content = known]
                   ELSE [Idle EXCEPT !.at = "asking"])
  /\ UNCHANGED <<hostVars, dirVars, walkVars, diskVars>>

(* A plausible slip: a file under this name is taken for this content.    *)
KeptIfThere(c) == IF blobs[c] = Absent THEN c ELSE blobs[c]

(* _write_blob: a file with other bytes is replaced.                       *)
Written(c) == c

(* 200, with bytes that agree with both hashes, which are stored at once.   *)
Fetched(w, f) ==
  LET c == origin[f] IN
  /\ At(w, f, "asking") /\ task[w][f].known # c
  /\ blobs' = [blobs EXCEPT ![c] = Written(c)]
  /\ Becomes(w, f, [Idle EXCEPT !.at = "stored", !.content = c])
  /\ UNCHANGED <<hostVars, refs, walkVars, diskVars>>

(* 404, a directory, no inline content, no access, bytes that do not agree. *)
Fails(w, f) ==
  /\ At(w, f, "asking")
  /\ Becomes(w, f, [Idle EXCEPT !.at = "failed"])
  /\ UNCHANGED <<hostVars, dirVars, walkVars, diskVars>>

StoreRef(w, f) ==
  LET c == task[w][f].content IN
  /\ At(w, f, "stored")
  /\ IF blobs[c] = Absent THEN Becomes(w, f, [Idle EXCEPT !.at = "failed"]) /\ UNCHANGED refs
     ELSE /\ refs' = [refs EXCEPT ![f] = c]
          /\ Becomes(w, f, [Idle EXCEPT !.at = "done", !.content = c])
  /\ UNCHANGED <<hostVars, blobs, walkVars, diskVars>>

-----------------------------------------------------------------------------
(* materialize_remote_dot and load_remote_or_local_graph                   *)

Begin(w) ==
  /\ phase[w] = "idle"
  /\ phase' = [phase EXCEPT ![w] = "walking"]
  /\ frontier' = [frontier EXCEPT ![w] = {Entry}]
  /\ served' = [served EXCEPT ![w] = [f \in Files |-> {origin[f]}]]
  /\ intact' = intact \cup {w}
  /\ UNCHANGED <<origin, moves, dirVars, depth, text, task, faults>>

(* parse_uri: a malformed address, before anything is fetched.             *)
Refuses(w) ==
  /\ phase[w] = "idle"
  /\ phase' = [phase EXCEPT ![w] = "over"]
  /\ UNCHANGED <<hostVars, dirVars, served, frontier, depth, text, task, diskVars>>

(* On any failure the view is removed; calls of the level that are still    *)
(* under way go on behind its back.                                        *)
GiveUp(w) ==
  /\ phase' = [phase EXCEPT ![w] = "failed"]
  /\ text' = [text EXCEPT ![w] = <<>>] /\ depth' = [depth EXCEPT ![w] = 0]
  /\ served' = [served EXCEPT ![w] = Unasked]
  /\ UNCHANGED frontier

TooDeep(w) ==
  /\ phase[w] = "walking" /\ depth[w] >= MaxDepth
  /\ GiveUp(w)
  /\ UNCHANGED <<hostVars, dirVars, task, diskVars>>

GetRaised(w) ==
  /\ phase[w] = "walking" /\ \E f \in frontier[w] : At(w, f, "failed")
  /\ GiveUp(w)
  /\ UNCHANGED <<hostVars, dirVars, task, diskVars>>

Names(c) == IF c = Damaged THEN {} ELSE References[c]
Readable(c) == c \notin Broken
SizeOf(c) == IF c = Damaged THEN 1 ELSE Size[c]

(* The whole level has come: no await from here on.  Bytes that the disk    *)
(* has damaged may still read as a graph.                                  *)
LevelEnds(w) ==
  LET level == frontier[w]
      got == [f \in level |-> task[w][f].content]
      all == [f \in DOMAIN text[w] \cup level |-> IF f \in level THEN got[f] ELSE text[w][f]]
      next == (UNION {Names(got[f]) : f \in level}) \ DOMAIN all
      within == /\ Cardinality(DOMAIN all) <= MaxFiles
                /\ MapThenSumSet(LAMBDA f : SizeOf(all[f]), DOMAIN all) <= MaxBytes
      readable == \A f \in level : Readable(got[f])
  IN  /\ phase[w] = "walking" /\ depth[w] < MaxDepth
      /\ \A f \in level : At(w, f, "done")
      /\ \/ /\ within /\ readable
            /\ text' = [text EXCEPT ![w] = all]
            /\ frontier' = [frontier EXCEPT ![w] = next]
            /\ depth' = [depth EXCEPT ![w] = @ + 1]
            /\ phase' = [phase EXCEPT ![w] = IF next = {} THEN "ready" ELSE @]
            /\ UNCHANGED served
         \/ /\ ~within \/ ~readable \/ \E f \in level : got[f] = Damaged
            /\ GiveUp(w)
      /\ task' = [task EXCEPT ![w] = NoTasks]
      /\ UNCHANGED <<hostVars, dirVars, diskVars>>

(* The run ends and calls cleanup.                                         *)
Cleanup(w) ==
  /\ phase[w] = "ready"
  /\ phase' = [phase EXCEPT ![w] = "over"]
  /\ text' = [text EXCEPT ![w] = <<>>] /\ depth' = [depth EXCEPT ![w] = 0]
  /\ served' = [served EXCEPT ![w] = Unasked]
  /\ UNCHANGED <<hostVars, dirVars, frontier, task, diskVars>>

(* The process ends or is killed, wherever it is; its view stays behind     *)
(* unused.                                                                 *)
Dies(w) ==
  /\ phase[w] \in {"walking", "failed"}
  /\ phase' = [phase EXCEPT ![w] = "over"]
  /\ served' = [served EXCEPT ![w] = Unasked]
  /\ task' = [task EXCEPT ![w] = NoTasks]
  /\ text' = [text EXCEPT ![w] = <<>>]
  /\ frontier' = [frontier EXCEPT ![w] = {}] /\ depth' = [depth EXCEPT ![w] = 0]
  /\ UNCHANGED <<hostVars, dirVars, diskVars>>

-----------------------------------------------------------------------------
(* The host and the disk                                                   *)

Push(f, c) ==
  /\ f \notin Immutable /\ c \in Versions[f] \ {origin[f]}
  /\ moves < MaxMoves /\ moves' = moves + 1
  /\ origin' = [origin EXCEPT ![f] = c]
  /\ served' = [w \in Walks |-> IF served[w] = Unasked THEN Unasked
                                ELSE [served[w] EXCEPT ![f] = @ \cup {c}]]
  /\ UNCHANGED <<dirVars, phase, frontier, depth, text, task, diskVars>>

DiskFault ==
  /\ faults < MaxFaults /\ faults' = faults + 1
  /\ intact' = {}
  /\ \/ \E c \in Contents :
          /\ blobs[c] # Absent
          /\ \E b \in {Damaged, Absent} : blobs' = [blobs EXCEPT ![c] = b]
          /\ UNCHANGED refs
     \/ \E f \in Files : refs[f] # Absent /\ refs' = [refs EXCEPT ![f] = Absent] /\ UNCHANGED blobs
  /\ UNCHANGED <<hostVars, walkVars, task>>

GetStep(w, f) ==
  \/ Lookup(w, f) \/ Transient(w, f) \/ NotModified(w, f) \/ Fetched(w, f)
  \/ Fails(w, f) \/ StoreRef(w, f)

WalkStep(w) ==
  \/ TooDeep(w) \/ GetRaised(w) \/ LevelEnds(w)
  \/ \E f \in Files : GetStep(w, f)

Next ==
  \/ \E w \in Walks : WalkStep(w) \/ Refuses(w) \/ Begin(w) \/ Cleanup(w) \/ Dies(w)
  \/ \E f \in Files : \E c \in Versions[f] : Push(f, c)
  \/ DiskFault

Spec == Init /\ [][Next]_vars

-----------------------------------------------------------------------------
(* Properties *)

(* Whatever other walks do to the shared directory, whoever dies there, and *)
(* whatever the disk loses, a caller gets a whole tree of files, each as    *)
(* fresh as a fetch made after it asked, or nothing.                       *)
Promise ==
  INSTANCE PublishedTrees WITH
    Readers <- Walks, recent <- served,
    tree <- [w \in Walks |-> IF phase[w] = "ready" THEN text[w] ELSE <<>>]

\* Whole trees for the callers of load_remote_dot and fetch, fresh or nothing.
PromiseKept == Promise!TreesSpec

(* A damaged or missing blob is put right by the first read that is not an  *)
(* immutable one: what a walk returns of a branch can be read back from the *)
(* directory, unless the disk has failed again since the walk began.       *)
CacheHeals ==
  \A w \in intact :
    phase[w] = "ready" => \A f \in DOMAIN text[w] \ Immutable : blobs[text[w][f]] = text[w][f]

===============================================================================
