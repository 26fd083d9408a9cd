---------------------------- MODULE CredentialFile ----------------------------
(***************************************************************************)
(* FileKeyValueStore (src/node/oauth.ts): one JSON file behind a map in    *)
(* memory.  set and delete are chained: each applies itself to the map,    *)
(* writes the whole map to a temporary file and renames it.  Any step of   *)
(* a write may fail, the file may be unreadable when it is first needed,   *)
(* and the process may end at any time and start again.                    *)
(***************************************************************************)
EXTENDS Naturals, Sequences

CONSTANTS
  Keys, Values,
  Absent,     \* no value: the entry is deleted, or was never there
  Writers     \* concurrent calls of set and delete

ASSUME StoreAssumption == Keys # {} /\ Absent \notin Values

VARIABLES
  disk,     \* the file
  memory,   \* #entries; loaded: the promise has been made
  chain,    \* #writes: the calls that have not settled, in order
  call,     \* what each of them does
  result,   \* ghost: per key, the outcome of the last mutation that settled
  blind     \* ghost: some load took an unreadable file for an empty one

vars == <<disk, memory, chain, call, result, blind>>

Content == [Keys -> Values \cup {Absent}]
Empty   == [k \in Keys |-> Absent]

(* `image` is what the call has serialised, once it writes.                *)
Steps == {"none", "queued", "applied", "written", "renamed"}
Call  == [step: Steps, key: Keys, value: Values \cup {Absent}, image: Content]
Idle  == [step |-> "none", key |-> CHOOSE k \in Keys : TRUE, value |-> Absent, image |-> Empty]

Result == [saved: BOOLEAN, value: Values \cup {Absent}]

Init ==
  /\ disk = Empty
  /\ memory = [loaded |-> FALSE, entries |-> Empty]
  /\ chain = <<>>
  /\ call = [w \in Writers |-> Idle]
  /\ result = [k \in Keys |-> [saved |-> TRUE, value |-> Absent]]
  /\ blind = FALSE

----------------------------------------------------------------------------
(* An operator with a suffix is a variant of the one it precedes, with one *)
(* mistake the code could have made: a property below refutes it.          *)

(* get and the first mutation load the file; an absent or unreadable file  *)
(* is an empty store.                                                      *)
Load(readable) ==
  /\ ~memory.loaded
  /\ memory' = [loaded |-> TRUE, entries |-> IF readable THEN disk ELSE Empty]
  /\ blind' = (blind \/ (~readable /\ disk # Empty))
  /\ UNCHANGED <<disk, chain, call, result>>

(* set(key, value), or delete(key) when the value is Absent.               *)
Mutate(w, k, v) ==
  /\ call[w].step = "none"
  /\ call' = [call EXCEPT ![w] = [step |-> "queued", key |-> k, value |-> v, image |-> Empty]]
  /\ chain' = Append(chain, w)
  /\ UNCHANGED <<disk, memory, result, blind>>

Turn_Any(w) == \E i \in DOMAIN chain : chain[i] = w

(* A link of #writes runs when the one before it has settled.              *)
Turn(w) == chain # <<>> /\ Head(chain) = w

Apply(w) ==
  /\ Turn(w) /\ call[w].step = "queued" /\ memory.loaded
  /\ memory' = [memory EXCEPT !.entries[call[w].key] = call[w].value]
  /\ call' = [call EXCEPT ![w].step = "applied"]
  /\ result' = [result EXCEPT ![call[w].key] = [saved |-> FALSE, value |-> call[w].value]]
  /\ UNCHANGED <<disk, chain, blind>>

(* writeFile(temporary): the map as it is when it is serialised.           *)
WriteTemporary(w) ==
  /\ call[w].step = "applied"
  /\ call' = [call EXCEPT ![w].step = "written", ![w].image = memory.entries]
  /\ UNCHANGED <<disk, memory, chain, result, blind>>

Rename(w) ==
  /\ call[w].step = "written"
  /\ disk' = call[w].image
  /\ call' = [call EXCEPT ![w].step = "renamed"]
  /\ UNCHANGED <<memory, chain, result, blind>>

Settled_Breaks(w) ==
  /\ call' = [call EXCEPT ![w] = Idle]
  /\ chain' = IF call[w].step = "renamed" THEN Tail(chain) ELSE chain

(* The link that had the turn is done with, one way or the other.          *)
Settled(w) ==
  /\ call' = [call EXCEPT ![w] = Idle]
  /\ chain' = Tail(chain)

(* The promise of the caller resolves after the last chmod ...             *)
Succeed(w) ==
  /\ call[w].step = "renamed"
  /\ Settled(w)
  /\ result' = [result EXCEPT ![call[w].key].saved = TRUE]
  /\ UNCHANGED <<disk, memory, blind>>

(* ... and rejects when anything before it fails.  The temporary file is   *)
(* removed; the map keeps what was applied to it.                          *)
Fail(w) ==
  /\ call[w].step \in {"applied", "written", "renamed"}
  /\ Settled(w)
  /\ UNCHANGED <<disk, memory, result, blind>>

(* The process ends and another is started on the same file.               *)
Crash ==
  /\ memory' = [loaded |-> FALSE, entries |-> Empty]
  /\ chain' = <<>> /\ call' = [w \in Writers |-> Idle]
  /\ UNCHANGED <<disk, result, blind>>

Next ==
  \/ \E readable \in BOOLEAN : Load(readable)
  \/ \E w \in Writers, k \in Keys, v \in Values \cup {Absent} : Mutate(w, k, v)
  \/ \E w \in Writers :
       Apply(w) \/ WriteTemporary(w) \/ Rename(w) \/ Succeed(w) \/ Fail(w)
  \/ Crash

Spec == Init /\ [][Next]_vars

(* File operations end.                                                    *)
Fairness ==
  /\ WF_vars(\E readable \in BOOLEAN : chain # <<>> /\ Load(readable))
  /\ \A w \in Writers :
       WF_vars(Apply(w) \/ WriteTemporary(w) \/ Rename(w) \/ Succeed(w))

----------------------------------------------------------------------------
TypeOK ==
  /\ disk \in Content
  /\ memory \in [loaded: BOOLEAN, entries: Content]
  /\ chain \in Seq(Writers) /\ call \in [Writers -> Call]
  /\ result \in [Keys -> Result] /\ blind \in BOOLEAN

(* "A read-modify-write never loses a concurrent entry", and a crash never *)
(* loses one that was acknowledged: a key whose last mutation has resolved *)
(* is on disk with that value, whatever else failed or was cut off, unless *)
(* the file was once unreadable.                                           *)
Durable ==
  ~blind => \A k \in Keys : result[k].saved => disk[k] = result[k].value

(* Typed, and what a resolved set or delete has written is on disk,        *)
(* whatever other mutation failed and wherever the process ended.          *)
FileDurable == TypeOK /\ Durable

(* Every set and delete settles, or the process ends.                      *)
MutationsSettle ==
  \A w \in Writers : call[w].step # "none" ~> call[w].step = "none"
===============================================================================
