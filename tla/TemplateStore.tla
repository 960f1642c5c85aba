----------------------------- MODULE TemplateStore -----------------------------
(***************************************************************************)
(* EncryptedTemplateStore of faceauth-storage: the template file of one    *)
(* account, under every caller of the store's methods.                     *)
(*                                                                         *)
(* Callers are threads and processes that share nothing but the directory. *)
(* The mutations of the account serialise on its lock file, which the      *)
(* kernel unlocks when the handle is closed or its process ends.  Each     *)
(* system call of atomic_write is a step, and each may fail.  Loads take   *)
(* no lock; a load's one effect is to open the file, since a file that was *)
(* renamed into place is never written again.                              *)
(*                                                                         *)
(* A loss of power keeps one of the directory entries renamed since the    *)
(* directory was last synced, and of a file that was not synced nothing.   *)
(*                                                                         *)
(* Slip definitions are deliberate errors, as in SessionManager.           *)
(***************************************************************************)
EXTENDS Naturals

CONSTANTS
  Callers,
  Records,        \* valid TemplateRecord values of the account
  Nothing,        \* no record: of a tombstone, or where there is no file
  MaxGeneration,  \* u64::MAX, the last generation
  MaxCalls,       \* bound on the mutations a caller asks for
  MaxLosses,      \* bound on the losses of power
  Nobody          \* no caller holds the lock

ASSUME StoreAssumption ==
  /\ MaxGeneration \in Nat
  /\ MaxCalls \in Nat
  /\ MaxLosses \in Nat
  /\ Nothing \notin Records
  /\ Nobody \notin Callers

VARIABLES
  template,  \* what the template file's name leads to
  disk,      \* what it may lead to after a loss of power
  holder,    \* the caller that holds the lock file's lock
  place,     \* where each caller stands
  call,      \* the mutation each caller asked for last
  base,      \* the payload read_optional_payload gave it under the lock
  seen,      \* the payload load_with_generation gave it last
  synced,    \* whether its temporary file has been synced
  asked,     \* mutations each caller asked for
  acknowledged,  \* history: the generation of the newest acknowledged mutation
  losses         \* losses of power so far

shared == <<template, disk, acknowledged>>
vars == <<template, disk, holder, place, call, base, seen, synced, asked,
          acknowledged, losses>>

\* StoredPayload.  A record of a storage version without generations reads as
\* live at generation zero; where there is no file the next generation is one.
Generations == 0..MaxGeneration
Absent == [state |-> "absent", generation |-> 0, record |-> Nothing]
Live(g, r) == [state |-> "live", generation |-> g, record |-> r]
Deleted(g) == [state |-> "deleted", generation |-> g, record |-> Nothing]
Torn == [state |-> "torn", generation |-> 0, record |-> Nothing]

Payloads ==
  {Absent} \cup {Live(g, r) : g \in Generations, r \in Records}
           \cup {Deleted(g) : g \in Generations \ {0}}

Kinds == {"save", "replace", "delete", "deleteIf"}
Requests == {r \in [kind : Kinds, record : Records \cup {Nothing}] :
               r.record = Nothing <=> r.kind \in {"delete", "deleteIf"}}
NoRequest == [kind |-> "none", record |-> Nothing]

Places == {"resting", "locking", "reading", "writing", "syncing",
           "renaming", "settling"}
Locked == Places \ {"resting", "locking"}

Init ==
  /\ template \in {Absent} \cup {Live(0, r) : r \in Records}
  /\ disk = {template}
  /\ holder = Nobody
  /\ place = [c \in Callers |-> "resting"]
  /\ call = [c \in Callers |-> NoRequest]
  /\ base = [c \in Callers |-> Absent]
  /\ seen = [c \in Callers |-> Absent]
  /\ synced = [c \in Callers |-> FALSE]
  /\ asked = [c \in Callers |-> 0]
  /\ acknowledged = 0
  /\ losses = 0

-------------------------------------------------------------------------------

\* Caller c goes from one place to another; the lock and the file stay.
Goes(c, from, to) ==
  /\ place[c] = from
  /\ place' = [place EXCEPT ![c] = to]
  /\ UNCHANGED <<seen, losses>>

\* The guard of the lock outlives the method.
SlipReturns(c) ==
  /\ place' = [place EXCEPT ![c] = "resting"]
  /\ call' = [call EXCEPT ![c] = NoRequest]
  /\ base' = [base EXCEPT ![c] = Absent]
  /\ synced' = [synced EXCEPT ![c] = FALSE]
  /\ UNCHANGED <<holder, asked, losses>>

\* A method returns, and drops its locals and the guard of the lock.
Returns(c) ==
  /\ place' = [place EXCEPT ![c] = "resting"]
  /\ holder' = IF holder = c THEN Nobody ELSE holder
  /\ call' = [call EXCEPT ![c] = NoRequest]
  /\ base' = [base EXCEPT ![c] = Absent]
  /\ synced' = [synced EXCEPT ![c] = FALSE]
  /\ UNCHANGED <<asked, losses>>

\* load_with_generation: a tombstone, no file and an unreadable file are errors.
LoadWithGeneration(c) ==
  /\ place[c] = "resting"
  /\ asked[c] < MaxCalls
  /\ seen' = [seen EXCEPT ![c] = IF template.state = "live" THEN template ELSE Absent]
  /\ UNCHANGED <<shared, holder, place, call, base, synced, asked, losses>>

\* The conditional mutations expect the generation of the caller's last load.
Ask(c) ==
  /\ asked[c] < MaxCalls
  /\ \E r \in Requests :
       /\ r.kind \in {"replace", "deleteIf"} => seen[c].state = "live"
       /\ call' = [call EXCEPT ![c] = r]
  /\ asked' = [asked EXCEPT ![c] = @ + 1]
  /\ Goes(c, "resting", "locking")
  /\ UNCHANGED <<shared, holder, base, synced>>

\* with_exclusive_uid_lock
Lock(c) ==
  /\ holder = Nobody
  /\ holder' = c
  /\ Goes(c, "locking", "reading")
  /\ UNCHANGED <<shared, call, base, synced, asked>>

\* A tombstone taken for a template.
SlipAppliesToTombstone(r, expected, current) ==
  /\ current.state # "torn"
  /\ r.kind # "save" => current.state # "absent"
  /\ r.kind \in {"replace", "deleteIf"} => expected.generation = current.generation
  /\ current.generation < MaxGeneration

\* read_optional_payload passes; the mutation's own checks.
Applies(r, expected, current) ==
  /\ current.state # "torn"
  /\ r.kind # "save" => current.state = "live"
  /\ r.kind \in {"replace", "deleteIf"} => expected.generation = current.generation
  /\ current.generation < MaxGeneration

Read(c) ==
  /\ Applies(call[c], seen[c], template)
  /\ base' = [base EXCEPT ![c] = template]
  /\ Goes(c, "reading", "writing")
  /\ UNCHANGED <<shared, holder, call, synced, asked>>

\* StaleGeneration, TemplateNotPresent, GenerationExhausted, InvalidRecord
Refuse(c) ==
  /\ place[c] = "reading"
  /\ ~Applies(call[c], seen[c], template)
  /\ Returns(c)
  /\ UNCHANGED <<shared, seen>>

\* The payload that write_payload encrypts.
Written(r, current) ==
  IF r.kind \in {"save", "replace"}
  THEN Live(current.generation + 1, r.record)
  ELSE Deleted(current.generation + 1)

\* The temporary file is created and written; nobody else knows its name.
Write(c) ==
  /\ Goes(c, "writing", "syncing")
  /\ UNCHANGED <<shared, holder, call, base, synced, asked>>

Sync(c) ==
  /\ Goes(c, "syncing", "renaming")
  /\ synced' = [synced EXCEPT ![c] = TRUE]
  /\ UNCHANGED <<shared, holder, call, base, asked>>

Rename(c) ==
  /\ Goes(c, "renaming", "settling")
  /\ template' = Written(call[c], base[c])
  /\ disk' = disk \cup {IF synced[c] THEN template' ELSE Torn}
  /\ UNCHANGED <<holder, call, base, synced, asked, acknowledged>>

\* The method returns Ok without syncing the directory.
SlipSyncDirectory(c) ==
  /\ place[c] = "settling"
  /\ acknowledged' = template.generation
  /\ Returns(c)
  /\ UNCHANGED <<template, disk, seen>>

\* The directory is synced and the method returns Ok.
SyncDirectory(c) ==
  /\ place[c] = "settling"
  /\ disk' = {template}
  /\ acknowledged' = template.generation
  /\ Returns(c)
  /\ UNCHANGED <<template, seen>>

\* Any step but the last may fail; a temporary file left is then removed.
\* Once the rename is done the method fails with its payload in place.
Fail(c) ==
  /\ place[c] # "resting"
  /\ Returns(c)
  /\ UNCHANGED <<shared, seen>>

\* The caller's process ends, and another takes its place.
Die(c) ==
  /\ Returns(c)
  /\ seen' = [seen EXCEPT ![c] = Absent]
  /\ UNCHANGED shared

LosePower ==
  /\ losses < MaxLosses
  /\ losses' = losses + 1
  /\ template' \in disk
  /\ disk' = {template'}
  /\ holder' = Nobody
  /\ place' = [c \in Callers |-> "resting"]
  /\ call' = [c \in Callers |-> NoRequest]
  /\ base' = [c \in Callers |-> Absent]
  /\ seen' = [c \in Callers |-> Absent]
  /\ synced' = [c \in Callers |-> FALSE]
  /\ UNCHANGED <<asked, acknowledged>>

Step(c) ==
  \/ Lock(c) \/ Read(c) \/ Refuse(c) \/ Write(c) \/ Sync(c)
  \/ Rename(c) \/ SyncDirectory(c)

Next ==
  \/ LosePower
  \/ \E c \in Callers :
       LoadWithGeneration(c) \/ Ask(c) \/ Step(c) \/ Fail(c) \/ Die(c)

\* The kernel runs every caller, and wakes those that wait for the lock.
Fairness == \A c \in Callers : WF_vars(Step(c))

Spec == Init /\ [][Next]_vars
FairSpec == Spec /\ Fairness

-------------------------------------------------------------------------------

\* Type correctness of the store: in particular no generation passes the last
\* one, at which next_generation refuses the mutation.
TypeOK ==
  /\ template \in Payloads \cup {Torn}
  /\ disk \subseteq Payloads \cup {Torn}
  /\ holder \in Callers \cup {Nobody}
  /\ place \in [Callers -> Places]
  /\ call \in [Callers -> Requests \cup {NoRequest}]
  /\ base \in [Callers -> Payloads]
  /\ seen \in [Callers -> Payloads]
  /\ synced \in [Callers -> BOOLEAN]
  /\ asked \in [Callers -> 0..MaxCalls]
  /\ acknowledged \in Generations
  /\ losses \in 0..MaxLosses

\* Only a loss of power moves the template file by anything but one
\* generation: of two mutations of the account neither hides the other.
GenerationsSucceed ==
  [][template' = template \/ losses' # losses
       \/ template'.generation = template.generation + 1]_vars

\* A conditional mutation replaces the very payload its caller loaded, however
\* many mutations of others ran meanwhile; no tombstone or new enrollment with
\* the same generation takes its place.
ReplacesWhatItSaw ==
  [][\A c \in Callers :
       /\ place[c] = "renaming"
       /\ place'[c] = "settling"
       /\ call[c].kind \in {"replace", "deleteIf"}
       => template = seen[c]]_vars

\* Whatever entry a loss of power leaves, it holds a whole payload no older
\* than the newest mutation that returned Ok.
AcknowledgedLasts ==
  \A p \in disk : p.state # "torn" /\ p.generation >= acknowledged

\* The store is the register of VersionedTemplate: a mutation takes effect at
\* its rename.
Register == INSTANCE VersionedTemplate WITH
  Unseen <- Absent,
  Resting <- NoRequest,
  Done <- [kind |-> "done", record |-> Nothing],
  request <- [c \in Callers |->
    IF place[c] = "settling" THEN [kind |-> "done", record |-> Nothing] ELSE call[c]]

ImplementsVersionedTemplate == Register!Spec

\* Every method returns: a lock is never left locked, whatever fails.
EveryCallReturns == \A c \in Callers : place[c] # "resting" ~> place[c] = "resting"

===============================================================================
