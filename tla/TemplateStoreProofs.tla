-------------------------- MODULE TemplateStoreProofs --------------------------
(***************************************************************************)
(* Proofs about TemplateStore, for any callers and records, any width of   *)
(* the generation, and any number of mutations and losses of power.        *)
(***************************************************************************)
EXTENDS TemplateStore, TLAPS

\* A caller is between taking the lock and returning exactly while it holds it.
LockHeld == \A c \in Callers : place[c] \in Locked <=> holder = c

\* A method in progress has its request, and a conditional one something to
\* compare; at rest there is neither.
CallsMatch == \A c \in Callers :
  /\ place[c] = "resting" <=> call[c] = NoRequest
  /\ call[c].kind \in {"replace", "deleteIf"} => seen[c].state = "live"

\* What was read under the lock, and found to apply, still stands.
BaseStands == \A c \in Callers :
  place[c] \in {"writing", "syncing", "renaming"} =>
    base[c] = template /\ Applies(call[c], seen[c], template)

\* The temporary file is synced before it is renamed.
SyncedFirst == \A c \in Callers : place[c] = "renaming" => synced[c]

\* A payload that was loaded is not newer than the template, and with its
\* generation there is no other.
SeenIsPast == \A c \in Callers : seen[c].state = "live" =>
  /\ seen[c].generation <= template.generation
  /\ seen[c].generation = template.generation => seen[c] = template

\* The disk holds the template or a whole predecessor of it.
DiskFollows ==
  /\ template \in disk
  /\ disk \subseteq Payloads
  /\ \A p \in disk : p.generation \in acknowledged..template.generation

\* The inductive invariant.
Inv ==
  /\ TypeOK
  /\ LockHeld
  /\ CallsMatch
  /\ BaseStands
  /\ SyncedFirst
  /\ SeenIsPast
  /\ DiskFollows

-------------------------------------------------------------------------------

\* A payload has a generation and one of three states.
LEMMA PayloadShape ==
  ASSUME NEW p \in Payloads
  PROVE  /\ p.generation \in Generations
         /\ p.state \in {"absent", "live", "deleted"}
         /\ p # Torn
<1>1. 0 \in Generations
  BY StoreAssumption DEF Generations
<1>2. QED
  BY <1>1 DEF Payloads, Absent, Live, Deleted, Torn

\* There is always the payload that stands for no file.
LEMMA AbsentIsPayload == Absent \in Payloads
BY DEF Payloads

\* A mutation writes a payload of the next generation.
LEMMA WrittenShape ==
  ASSUME NEW r \in Requests, NEW p \in Payloads, p.generation < MaxGeneration
  PROVE  /\ Written(r, p) \in Payloads
         /\ Written(r, p).generation = p.generation + 1
<1>1. p.generation \in Nat /\ p.generation + 1 \in Generations \ {0}
  BY PayloadShape, StoreAssumption DEF Generations
<1>2. CASE r.kind \in {"save", "replace"}
  <2>1. r.record \in Records
    BY <1>2 DEF Requests
  <2>2. QED
    BY <1>1, <1>2, <2>1 DEF Written, Payloads, Live
<1>3. CASE r.kind \notin {"save", "replace"}
  BY <1>1, <1>3 DEF Written, Payloads, Deleted
<1>4. QED
  BY <1>2, <1>3

\* No request is not a request.
LEMMA NoRequestIsNone == NoRequest \notin Requests
BY DEF NoRequest, Requests, Kinds

\* A rename puts the next generation of a live request in the template's place.
LEMMA RenameShape ==
  ASSUME TypeOK, CallsMatch, BaseStands, NEW c \in Callers, Rename(c)
  PROVE  /\ base[c] = template
         /\ Applies(call[c], seen[c], template)
         /\ call[c] \in Requests
         /\ template \in Payloads
         /\ template.generation \in Generations
         /\ template' \in Payloads
         /\ template'.generation = template.generation + 1
<1>1. base[c] = template /\ Applies(call[c], seen[c], template)
  BY DEF Rename, Goes, BaseStands
<1>2. template \in Payloads /\ template.generation < MaxGeneration
  BY <1>1 DEF Applies, TypeOK
<1>3. call[c] \in Requests
  BY DEF Rename, Goes, CallsMatch, TypeOK
<1>4. template' \in Payloads /\ template'.generation = template.generation + 1
  BY <1>1, <1>2, <1>3, WrittenShape DEF Rename
<1>5. QED
  BY <1>1, <1>2, <1>3, <1>4, PayloadShape

\* Every step keeps the types.
LEMMA TypeStep ==
  ASSUME TypeOK, BaseStands, SyncedFirst, CallsMatch, DiskFollows, [Next]_vars
  PROVE  TypeOK'
<1> USE StoreAssumption, AbsentIsPayload DEF TypeOK, Places, vars, shared
<1>1. CASE \E c \in Callers : LoadWithGeneration(c)
  <2>1. PICK c \in Callers : LoadWithGeneration(c)
    BY <1>1
  <2>2. template.state = "live" => template \in Payloads
    BY DEF Torn
  <2>3. QED
    BY <2>1, <2>2 DEF LoadWithGeneration
<1>2. CASE \E c \in Callers : Ask(c)
  <2>1. PICK c \in Callers : Ask(c)
    BY <1>2
  <2>2. QED
    BY <2>1 DEF Ask, Goes
<1>3. CASE \E c \in Callers : Lock(c)
  <2>1. PICK c \in Callers : Lock(c)
    BY <1>3
  <2>2. QED
    BY <2>1 DEF Lock, Goes
<1>4. CASE \E c \in Callers : Read(c)
  <2>1. PICK c \in Callers : Read(c)
    BY <1>4
  <2>2. template \in Payloads
    BY <2>1 DEF Read, Applies, Torn
  <2>3. QED
    BY <2>1, <2>2 DEF Read, Goes
<1>5. CASE \E c \in Callers : Refuse(c)
  <2>1. PICK c \in Callers : Refuse(c)
    BY <1>5
  <2>2. QED
    BY <2>1 DEF Refuse, Returns
<1>6. CASE \E c \in Callers : Write(c)
  <2>1. PICK c \in Callers : Write(c)
    BY <1>6
  <2>2. QED
    BY <2>1 DEF Write, Goes
<1>7. CASE \E c \in Callers : Sync(c)
  <2>1. PICK c \in Callers : Sync(c)
    BY <1>7
  <2>2. QED
    BY <2>1 DEF Sync, Goes
<1>8. CASE \E c \in Callers : Rename(c)
  <2>1. PICK c \in Callers : Rename(c)
    BY <1>8
  <2>2. template' \in Payloads
    BY <2>1, RenameShape
  <2>3. QED
    BY <2>1, <2>2 DEF Rename, Goes
<1>9. CASE \E c \in Callers : SyncDirectory(c)
  <2>1. PICK c \in Callers : SyncDirectory(c)
    BY <1>9
  <2>2. template.generation \in Generations
    BY DiskFollows, PayloadShape DEF DiskFollows
  <2>3. QED
    BY <2>1, <2>2 DEF SyncDirectory, Returns
<1>10. CASE \E c \in Callers : Fail(c)
  <2>1. PICK c \in Callers : Fail(c)
    BY <1>10
  <2>2. QED
    BY <2>1 DEF Fail, Returns
<1>11. CASE \E c \in Callers : Die(c)
  <2>1. PICK c \in Callers : Die(c)
    BY <1>11
  <2>2. QED
    BY <2>1 DEF Die, Returns
<1>12. CASE LosePower
  BY <1>12 DEF LosePower
<1>13. CASE UNCHANGED vars
  BY <1>13
<1>14. QED
  BY <1>1, <1>2, <1>3, <1>4, <1>5, <1>6, <1>7, <1>8, <1>9, <1>10, <1>11, <1>12, <1>13
     DEF Next, Step

\* The lock is taken and given back with the places.
LEMMA LockStep ==
  ASSUME TypeOK, LockHeld, [Next]_vars
  PROVE  LockHeld'
<1> USE StoreAssumption DEF TypeOK, LockHeld, Locked, Places, vars
<1>1. CASE \E c \in Callers : LoadWithGeneration(c)
  <2>1. PICK c \in Callers : LoadWithGeneration(c)
    BY <1>1
  <2>2. QED
    BY <2>1 DEF LoadWithGeneration
<1>2. CASE \E c \in Callers : Ask(c)
  <2>1. PICK c \in Callers : Ask(c)
    BY <1>2
  <2>2. QED
    BY <2>1 DEF Ask, Goes
<1>3. CASE \E c \in Callers : Lock(c)
  <2>1. PICK c \in Callers : Lock(c)
    BY <1>3
  <2>2. QED
    BY <2>1 DEF Lock, Goes
<1>4. CASE \E c \in Callers : Read(c)
  <2>1. PICK c \in Callers : Read(c)
    BY <1>4
  <2>2. QED
    BY <2>1 DEF Read, Goes
<1>5. CASE \E c \in Callers : Refuse(c)
  <2>1. PICK c \in Callers : Refuse(c)
    BY <1>5
  <2>2. QED
    BY <2>1 DEF Refuse, Returns
<1>6. CASE \E c \in Callers : Write(c)
  <2>1. PICK c \in Callers : Write(c)
    BY <1>6
  <2>2. QED
    BY <2>1 DEF Write, Goes
<1>7. CASE \E c \in Callers : Sync(c)
  <2>1. PICK c \in Callers : Sync(c)
    BY <1>7
  <2>2. QED
    BY <2>1 DEF Sync, Goes
<1>8. CASE \E c \in Callers : Rename(c)
  <2>1. PICK c \in Callers : Rename(c)
    BY <1>8
  <2>2. QED
    BY <2>1 DEF Rename, Goes
<1>9. CASE \E c \in Callers : SyncDirectory(c)
  <2>1. PICK c \in Callers : SyncDirectory(c)
    BY <1>9
  <2>2. QED
    BY <2>1 DEF SyncDirectory, Returns
<1>10. CASE \E c \in Callers : Fail(c)
  <2>1. PICK c \in Callers : Fail(c)
    BY <1>10
  <2>2. QED
    BY <2>1 DEF Fail, Returns
<1>11. CASE \E c \in Callers : Die(c)
  <2>1. PICK c \in Callers : Die(c)
    BY <1>11
  <2>2. QED
    BY <2>1 DEF Die, Returns
<1>12. CASE LosePower
  BY <1>12 DEF LosePower
<1>13. CASE UNCHANGED vars
  BY <1>13
<1>14. QED
  BY <1>1, <1>2, <1>3, <1>4, <1>5, <1>6, <1>7, <1>8, <1>9, <1>10, <1>11, <1>12, <1>13
     DEF Next, Step

\* Requests come and go with the calls.
LEMMA CallsStep ==
  ASSUME TypeOK, CallsMatch, [Next]_vars
  PROVE  CallsMatch'
<1> USE StoreAssumption, NoRequestIsNone DEF TypeOK, CallsMatch, Places, NoRequest, vars
<1>1. CASE \E c \in Callers : LoadWithGeneration(c)
  <2>1. PICK c \in Callers : LoadWithGeneration(c)
    BY <1>1
  <2>2. QED
    BY <2>1 DEF LoadWithGeneration
<1>2. CASE \E c \in Callers : Ask(c)
  <2>1. PICK c \in Callers : Ask(c)
    BY <1>2
  <2>2. QED
    BY <2>1 DEF Ask, Goes
<1>3. CASE \E c \in Callers : Lock(c)
  <2>1. PICK c \in Callers : Lock(c)
    BY <1>3
  <2>2. QED
    BY <2>1 DEF Lock, Goes
<1>4. CASE \E c \in Callers : Read(c)
  <2>1. PICK c \in Callers : Read(c)
    BY <1>4
  <2>2. QED
    BY <2>1 DEF Read, Goes
<1>5. CASE \E c \in Callers : Refuse(c)
  <2>1. PICK c \in Callers : Refuse(c)
    BY <1>5
  <2>2. QED
    BY <2>1 DEF Refuse, Returns
<1>6. CASE \E c \in Callers : Write(c)
  <2>1. PICK c \in Callers : Write(c)
    BY <1>6
  <2>2. QED
    BY <2>1 DEF Write, Goes
<1>7. CASE \E c \in Callers : Sync(c)
  <2>1. PICK c \in Callers : Sync(c)
    BY <1>7
  <2>2. QED
    BY <2>1 DEF Sync, Goes
<1>8. CASE \E c \in Callers : Rename(c)
  <2>1. PICK c \in Callers : Rename(c)
    BY <1>8
  <2>2. QED
    BY <2>1 DEF Rename, Goes
<1>9. CASE \E c \in Callers : SyncDirectory(c)
  <2>1. PICK c \in Callers : SyncDirectory(c)
    BY <1>9
  <2>2. QED
    BY <2>1 DEF SyncDirectory, Returns
<1>10. CASE \E c \in Callers : Fail(c)
  <2>1. PICK c \in Callers : Fail(c)
    BY <1>10
  <2>2. QED
    BY <2>1 DEF Fail, Returns
<1>11. CASE \E c \in Callers : Die(c)
  <2>1. PICK c \in Callers : Die(c)
    BY <1>11
  <2>2. QED
    BY <2>1 DEF Die, Returns
<1>12. CASE LosePower
  BY <1>12 DEF LosePower
<1>13. CASE UNCHANGED vars
  BY <1>13
<1>14. QED
  BY <1>1, <1>2, <1>3, <1>4, <1>5, <1>6, <1>7, <1>8, <1>9, <1>10, <1>11, <1>12, <1>13
     DEF Next, Step

\* Only Sync leads to the rename.
LEMMA SyncedStep ==
  ASSUME TypeOK, SyncedFirst, [Next]_vars
  PROVE  SyncedFirst'
<1> USE DEF TypeOK, SyncedFirst, Places, vars
<1>1. CASE \E c \in Callers : LoadWithGeneration(c)
  <2>1. PICK c \in Callers : LoadWithGeneration(c)
    BY <1>1
  <2>2. QED
    BY <2>1 DEF LoadWithGeneration
<1>2. CASE \E c \in Callers : Ask(c)
  <2>1. PICK c \in Callers : Ask(c)
    BY <1>2
  <2>2. QED
    BY <2>1 DEF Ask, Goes
<1>3. CASE \E c \in Callers : Lock(c)
  <2>1. PICK c \in Callers : Lock(c)
    BY <1>3
  <2>2. QED
    BY <2>1 DEF Lock, Goes
<1>4. CASE \E c \in Callers : Read(c)
  <2>1. PICK c \in Callers : Read(c)
    BY <1>4
  <2>2. QED
    BY <2>1 DEF Read, Goes
<1>5. CASE \E c \in Callers : Refuse(c)
  <2>1. PICK c \in Callers : Refuse(c)
    BY <1>5
  <2>2. QED
    BY <2>1 DEF Refuse, Returns
<1>6. CASE \E c \in Callers : Write(c)
  <2>1. PICK c \in Callers : Write(c)
    BY <1>6
  <2>2. QED
    BY <2>1 DEF Write, Goes
<1>7. CASE \E c \in Callers : Sync(c)
  <2>1. PICK c \in Callers : Sync(c)
    BY <1>7
  <2>2. QED
    BY <2>1 DEF Sync, Goes
<1>8. CASE \E c \in Callers : Rename(c)
  <2>1. PICK c \in Callers : Rename(c)
    BY <1>8
  <2>2. QED
    BY <2>1 DEF Rename, Goes
<1>9. CASE \E c \in Callers : SyncDirectory(c)
  <2>1. PICK c \in Callers : SyncDirectory(c)
    BY <1>9
  <2>2. QED
    BY <2>1 DEF SyncDirectory, Returns
<1>10. CASE \E c \in Callers : Fail(c)
  <2>1. PICK c \in Callers : Fail(c)
    BY <1>10
  <2>2. QED
    BY <2>1 DEF Fail, Returns
<1>11. CASE \E c \in Callers : Die(c)
  <2>1. PICK c \in Callers : Die(c)
    BY <1>11
  <2>2. QED
    BY <2>1 DEF Die, Returns
<1>12. CASE LosePower
  BY <1>12 DEF LosePower
<1>13. CASE UNCHANGED vars
  BY <1>13
<1>14. QED
  BY <1>1, <1>2, <1>3, <1>4, <1>5, <1>6, <1>7, <1>8, <1>9, <1>10, <1>11, <1>12, <1>13
     DEF Next, Step

\* Nobody else moves the template while the lock is held.
LEMMA BaseStep ==
  ASSUME TypeOK, LockHeld, BaseStands, [Next]_vars
  PROVE  BaseStands'
<1> USE StoreAssumption DEF TypeOK, BaseStands, Places, vars, shared
<1>1. CASE \E c \in Callers : LoadWithGeneration(c)
  <2>1. PICK c \in Callers : LoadWithGeneration(c)
    BY <1>1
  <2>2. QED
    BY <2>1 DEF LoadWithGeneration
<1>2. CASE \E c \in Callers : Ask(c)
  <2>1. PICK c \in Callers : Ask(c)
    BY <1>2
  <2>2. QED
    BY <2>1 DEF Ask, Goes
<1>3. CASE \E c \in Callers : Lock(c)
  <2>1. PICK c \in Callers : Lock(c)
    BY <1>3
  <2>2. QED
    BY <2>1 DEF Lock, Goes
<1>4. CASE \E c \in Callers : Read(c)
  <2>1. PICK c \in Callers : Read(c)
    BY <1>4
  <2>2. QED
    BY <2>1 DEF Read, Goes
<1>5. CASE \E c \in Callers : Refuse(c)
  <2>1. PICK c \in Callers : Refuse(c)
    BY <1>5
  <2>2. QED
    BY <2>1 DEF Refuse, Returns
<1>6. CASE \E c \in Callers : Write(c)
  <2>1. PICK c \in Callers : Write(c)
    BY <1>6
  <2>2. QED
    BY <2>1 DEF Write, Goes
<1>7. CASE \E c \in Callers : Sync(c)
  <2>1. PICK c \in Callers : Sync(c)
    BY <1>7
  <2>2. QED
    BY <2>1 DEF Sync, Goes
<1>8. CASE \E c \in Callers : Rename(c)
  <2>1. PICK c \in Callers : Rename(c)
    BY <1>8
  <2>2. \A d \in Callers : d # c => place[d] \notin Locked
    BY <2>1 DEF Rename, Goes, LockHeld, Locked
  <2>3. QED
    BY <2>1, <2>2 DEF Rename, Goes, Locked
<1>9. CASE \E c \in Callers : SyncDirectory(c)
  <2>1. PICK c \in Callers : SyncDirectory(c)
    BY <1>9
  <2>2. QED
    BY <2>1 DEF SyncDirectory, Returns
<1>10. CASE \E c \in Callers : Fail(c)
  <2>1. PICK c \in Callers : Fail(c)
    BY <1>10
  <2>2. QED
    BY <2>1 DEF Fail, Returns
<1>11. CASE \E c \in Callers : Die(c)
  <2>1. PICK c \in Callers : Die(c)
    BY <1>11
  <2>2. QED
    BY <2>1 DEF Die, Returns
<1>12. CASE LosePower
  BY <1>12 DEF LosePower
<1>13. CASE UNCHANGED vars
  BY <1>13
<1>14. QED
  BY <1>1, <1>2, <1>3, <1>4, <1>5, <1>6, <1>7, <1>8, <1>9, <1>10, <1>11, <1>12, <1>13
     DEF Next, Step

\* The template only moves forward while anybody remembers it.
LEMMA SeenStep ==
  ASSUME TypeOK, CallsMatch, BaseStands, SeenIsPast, DiskFollows, [Next]_vars
  PROVE  SeenIsPast'
<1> USE DEF SeenIsPast, vars, shared
<1>a. template \in Payloads /\ template.generation \in Nat
  BY PayloadShape, StoreAssumption DEF DiskFollows, Generations
<1>1. CASE \E c \in Callers : LoadWithGeneration(c)
  <2>1. PICK c \in Callers : LoadWithGeneration(c)
    BY <1>1
  <2>2. QED
    BY <2>1, <1>a DEF LoadWithGeneration, Absent, TypeOK
<1>2. CASE \E c \in Callers : Ask(c)
  <2>1. PICK c \in Callers : Ask(c)
    BY <1>2
  <2>2. QED
    BY <2>1 DEF Ask, Goes
<1>3. CASE \E c \in Callers : Lock(c)
  <2>1. PICK c \in Callers : Lock(c)
    BY <1>3
  <2>2. QED
    BY <2>1 DEF Lock, Goes
<1>4. CASE \E c \in Callers : Read(c)
  <2>1. PICK c \in Callers : Read(c)
    BY <1>4
  <2>2. QED
    BY <2>1 DEF Read, Goes
<1>5. CASE \E c \in Callers : Refuse(c)
  <2>1. PICK c \in Callers : Refuse(c)
    BY <1>5
  <2>2. QED
    BY <2>1 DEF Refuse, Returns
<1>6. CASE \E c \in Callers : Write(c)
  <2>1. PICK c \in Callers : Write(c)
    BY <1>6
  <2>2. QED
    BY <2>1 DEF Write, Goes
<1>7. CASE \E c \in Callers : Sync(c)
  <2>1. PICK c \in Callers : Sync(c)
    BY <1>7
  <2>2. QED
    BY <2>1 DEF Sync, Goes
<1>8. CASE \E c \in Callers : Rename(c)
  <2>1. PICK c \in Callers : Rename(c)
    BY <1>8
  <2>2. template'.generation = template.generation + 1
    BY <2>1, RenameShape
  <2>3. \A d \in Callers : seen[d].generation \in Nat
    BY PayloadShape, StoreAssumption DEF TypeOK, Generations
  <2>4. QED
    BY <2>1, <2>2, <2>3, <1>a DEF Rename, Goes
<1>9. CASE \E c \in Callers : SyncDirectory(c)
  <2>1. PICK c \in Callers : SyncDirectory(c)
    BY <1>9
  <2>2. QED
    BY <2>1 DEF SyncDirectory, Returns
<1>10. CASE \E c \in Callers : Fail(c)
  <2>1. PICK c \in Callers : Fail(c)
    BY <1>10
  <2>2. QED
    BY <2>1 DEF Fail, Returns
<1>11. CASE \E c \in Callers : Die(c)
  <2>1. PICK c \in Callers : Die(c)
    BY <1>11
  <2>2. QED
    BY <2>1 DEF Die, Absent, TypeOK
<1>12. CASE LosePower
  BY <1>12 DEF LosePower, Absent
<1>13. CASE UNCHANGED vars
  BY <1>13
<1>14. QED
  BY <1>1, <1>2, <1>3, <1>4, <1>5, <1>6, <1>7, <1>8, <1>9, <1>10, <1>11, <1>12, <1>13
     DEF Next, Step

\* Only whole payloads reach the disk, and what was acknowledged stays there.
LEMMA DiskStep ==
  ASSUME TypeOK, CallsMatch, BaseStands, SyncedFirst, DiskFollows, [Next]_vars
  PROVE  DiskFollows'
<1> USE DEF DiskFollows, vars, shared
<1>a. /\ template.generation \in Nat
      /\ acknowledged \in Nat
      /\ \A p \in disk : p.generation \in Nat
  BY PayloadShape, StoreAssumption DEF TypeOK, Generations
<1>1. CASE \E c \in Callers : LoadWithGeneration(c)
  <2>1. PICK c \in Callers : LoadWithGeneration(c)
    BY <1>1
  <2>2. QED
    BY <2>1 DEF LoadWithGeneration
<1>2. CASE \E c \in Callers : Ask(c)
  <2>1. PICK c \in Callers : Ask(c)
    BY <1>2
  <2>2. QED
    BY <2>1 DEF Ask, Goes
<1>3. CASE \E c \in Callers : Lock(c)
  <2>1. PICK c \in Callers : Lock(c)
    BY <1>3
  <2>2. QED
    BY <2>1 DEF Lock, Goes
<1>4. CASE \E c \in Callers : Read(c)
  <2>1. PICK c \in Callers : Read(c)
    BY <1>4
  <2>2. QED
    BY <2>1 DEF Read, Goes
<1>5. CASE \E c \in Callers : Refuse(c)
  <2>1. PICK c \in Callers : Refuse(c)
    BY <1>5
  <2>2. QED
    BY <2>1 DEF Refuse, Returns
<1>6. CASE \E c \in Callers : Write(c)
  <2>1. PICK c \in Callers : Write(c)
    BY <1>6
  <2>2. QED
    BY <2>1 DEF Write, Goes
<1>7. CASE \E c \in Callers : Sync(c)
  <2>1. PICK c \in Callers : Sync(c)
    BY <1>7
  <2>2. QED
    BY <2>1 DEF Sync, Goes
<1>8. CASE \E c \in Callers : Rename(c)
  <2>1. PICK c \in Callers : Rename(c)
    BY <1>8
  <2>2. synced[c]
    BY <2>1 DEF Rename, Goes, SyncedFirst
  <2>3. disk' = disk \cup {template'} /\ acknowledged' = acknowledged
    BY <2>1, <2>2 DEF Rename
  <2>4. template' \in Payloads /\ template'.generation = template.generation + 1
    BY <2>1, RenameShape
  <2>5. QED
    BY <2>3, <2>4, <1>a
<1>9. CASE \E c \in Callers : SyncDirectory(c)
  <2>1. PICK c \in Callers : SyncDirectory(c)
    BY <1>9
  <2>2. QED
    BY <2>1, <1>a DEF SyncDirectory
<1>10. CASE \E c \in Callers : Fail(c)
  <2>1. PICK c \in Callers : Fail(c)
    BY <1>10
  <2>2. QED
    BY <2>1 DEF Fail, Returns
<1>11. CASE \E c \in Callers : Die(c)
  <2>1. PICK c \in Callers : Die(c)
    BY <1>11
  <2>2. QED
    BY <2>1 DEF Die, Returns
<1>12. CASE LosePower
  BY <1>12, <1>a DEF LosePower
<1>13. CASE UNCHANGED vars
  BY <1>13
<1>14. QED
  BY <1>1, <1>2, <1>3, <1>4, <1>5, <1>6, <1>7, <1>8, <1>9, <1>10, <1>11, <1>12, <1>13
     DEF Next, Step

-------------------------------------------------------------------------------

\* The invariant holds in every reachable state.
THEOREM InvCorrect == Spec => []Inv
<1>1. Init => Inv
  <2> SUFFICES ASSUME Init
               PROVE  Inv
    OBVIOUS
  <2> USE StoreAssumption DEF Init
  <2>1. template \in Payloads /\ template.generation = 0 /\ 0 \in Generations
    BY DEF Payloads, Absent, Live, Generations
  <2>2. TypeOK
    BY <2>1, AbsentIsPayload DEF TypeOK, Places
  <2>3. LockHeld /\ BaseStands /\ SyncedFirst
    BY DEF LockHeld, BaseStands, SyncedFirst, Locked
  <2>4. CallsMatch
    BY DEF CallsMatch, NoRequest
  <2>5. SeenIsPast
    BY DEF SeenIsPast, Absent
  <2>6. DiskFollows
    BY <2>1 DEF DiskFollows
  <2>7. QED
    BY <2>2, <2>3, <2>4, <2>5, <2>6 DEF Inv
<1>2. Inv /\ [Next]_vars => Inv'
  BY TypeStep, LockStep, CallsStep, BaseStep, SyncedStep, SeenStep, DiskStep DEF Inv
<1>3. QED
  BY <1>1, <1>2, PTL DEF Spec

\* The variables keep their types.
THEOREM TypeCorrect == Spec => []TypeOK
<1>1. Inv => TypeOK
  BY DEF Inv
<1>2. QED
  BY <1>1, InvCorrect, PTL

\* atomic_write: a loss of power leaves a whole payload, not older than any
\* mutation that returned Ok.
THEOREM AcknowledgedLastsCorrect == Spec => []AcknowledgedLasts
<1>1. Inv => AcknowledgedLasts
  <2> SUFFICES ASSUME Inv, NEW p \in disk
               PROVE  p.state # "torn" /\ p.generation >= acknowledged
    BY DEF AcknowledgedLasts
  <2>1. p \in Payloads /\ p.generation \in acknowledged..template.generation
    BY DEF Inv, DiskFollows
  <2>2. QED
    BY <2>1, PayloadShape, StoreAssumption DEF Inv, TypeOK, Generations
<1>2. QED
  BY <1>1, InvCorrect, PTL

\* with_exclusive_uid_lock, next_generation: mutations of the account take
\* consecutive generations.
THEOREM GenerationsSucceedCorrect == Spec => GenerationsSucceed
<1>1. Inv /\ [Next]_vars =>
        [template' = template \/ losses' # losses
           \/ template'.generation = template.generation + 1]_vars
  <2> SUFFICES ASSUME Inv, [Next]_vars
               PROVE  \/ template' = template
                      \/ losses' # losses
                      \/ template'.generation = template.generation + 1
    OBVIOUS
  <2>1. CASE \E c \in Callers : Rename(c)
    BY <2>1, RenameShape DEF Inv
  <2>2. CASE LosePower
    BY <2>2, StoreAssumption DEF LosePower, Inv, TypeOK
  <2>3. CASE \E c \in Callers :
               \/ LoadWithGeneration(c) \/ Ask(c) \/ Lock(c) \/ Read(c)
               \/ Refuse(c) \/ Write(c) \/ Sync(c) \/ SyncDirectory(c)
               \/ Fail(c) \/ Die(c)
    BY <2>3 DEF LoadWithGeneration, Ask, Lock, Read, Refuse, Write, Sync,
                SyncDirectory, Fail, Die, shared
  <2>4. CASE UNCHANGED vars
    BY <2>4 DEF vars
  <2>5. QED
    BY <2>1, <2>2, <2>3, <2>4 DEF Next, Step
<1>2. QED
  BY <1>1, InvCorrect, PTL DEF Spec, GenerationsSucceed

\* replace_if_generation, delete_if_generation: the generation stands for the
\* payload, across deletions and new enrollments.
THEOREM ReplacesWhatItSawCorrect == Spec => ReplacesWhatItSaw
<1> DEFINE Sound ==
      \A c \in Callers :
        /\ place[c] = "renaming"
        /\ place'[c] = "settling"
        /\ call[c].kind \in {"replace", "deleteIf"}
        => template = seen[c]
<1>1. Inv => Sound
  <2> SUFFICES ASSUME Inv, NEW c \in Callers, place[c] = "renaming",
                      call[c].kind \in {"replace", "deleteIf"}
               PROVE  template = seen[c]
    OBVIOUS
  <2>1. Applies(call[c], seen[c], template)
    BY DEF Inv, BaseStands
  <2>2. seen[c].state = "live" /\ seen[c].generation = template.generation
    BY <2>1 DEF Inv, CallsMatch, Applies
  <2>3. QED
    BY <2>2 DEF Inv, SeenIsPast
<1>2. Inv /\ [Next]_vars => [Sound]_vars
  BY <1>1
<1>3. QED
  BY <1>2, InvCorrect, PTL DEF Spec, ReplacesWhatItSaw

-------------------------------------------------------------------------------

\* What VersionedTemplate sees of the calls.
Waits == [c \in Callers |->
  IF place[c] = "settling" THEN [kind |-> "done", record |-> Nothing] ELSE call[c]]

\* A step of one caller changes what is seen of its call only.
LEMMA WaitsStep ==
  ASSUME TypeOK, NEW c \in Callers, NEW to \in Places, NEW next,
         place' = [place EXCEPT ![c] = to],
         call' = [call EXCEPT ![c] = next]
  PROVE  Waits' = [Waits EXCEPT ![c] =
           IF to = "settling" THEN [kind |-> "done", record |-> Nothing] ELSE next]
BY DEF TypeOK, Waits

\* The store refines the register: the rename is the update, the sync of the
\* directory its acknowledgement.
THEOREM Refinement == Spec => ImplementsVersionedTemplate
<1> DEFINE Done == [kind |-> "done", record |-> Nothing]
<1>1. Init => Register!Init
  <2> SUFFICES ASSUME Init
               PROVE  Register!Init
    OBVIOUS
  <2>1. template \in Payloads /\ template.generation = 0
    BY StoreAssumption DEF Init, Payloads, Absent, Live, Generations
  <2>2. QED
    BY <2>1 DEF Init, Register!Init
<1>2. Inv /\ [Next]_vars => [Register!Next]_(Register!vars)
  <2> SUFFICES ASSUME Inv, [Next]_vars
               PROVE  \/ Register!Next
                      \/ UNCHANGED <<template, acknowledged, seen, Waits>>
    BY DEF Register!vars, Waits
  <2> USE DEF Inv
  <2>0. Waits \in [Callers -> Requests \cup {NoRequest, Done}]
    BY DEF TypeOK, Waits
  <2>1. CASE \E c \in Callers : LoadWithGeneration(c)
    <3>1. PICK c \in Callers : LoadWithGeneration(c)
      BY <2>1
    <3>2. Register!Load(c)
      BY <3>1 DEF LoadWithGeneration, Register!Load, shared, CallsMatch
    <3>3. QED
      BY <3>2 DEF Register!Next
  <2>2. CASE \E c \in Callers : Ask(c)
    <3>1. PICK c \in Callers, r \in Requests :
                 Ask(c) /\ call' = [call EXCEPT ![c] = r]
      BY <2>2 DEF Ask
    <3>2. Waits[c] = NoRequest /\ Waits' = [Waits EXCEPT ![c] = r]
      BY <3>1, WaitsStep DEF Ask, Goes, Waits, CallsMatch, Places
    <3>3. Register!Ask(c)
      BY <3>1, <3>2 DEF Ask, Goes, shared, Register!Ask, Waits
    <3>4. QED
      BY <3>3 DEF Register!Next
  <2>3. CASE \E c \in Callers : Lock(c) \/ Read(c) \/ Write(c) \/ Sync(c)
    BY <2>3 DEF Lock, Read, Write, Sync, Goes, shared, Waits, TypeOK
  <2>4. CASE \E c \in Callers : Refuse(c) \/ Fail(c) \/ Die(c)
    <3>1. PICK c \in Callers : Refuse(c) \/ Fail(c) \/ Die(c)
      BY <2>4
    <3>2. Waits' = [Waits EXCEPT ![c] = NoRequest]
      BY <3>1, WaitsStep DEF Refuse, Fail, Die, Returns, Places
    <3>3. Register!Abandon(c)
      BY <3>1, <3>2 DEF Refuse, Fail, Die, shared, Register!Abandon, Waits
    <3>4. QED
      BY <3>3 DEF Register!Next
  <2>5. CASE \E c \in Callers : Rename(c)
    <3>1. PICK c \in Callers : Rename(c)
      BY <2>5
    <3>2. /\ base[c] = template
          /\ Applies(call[c], seen[c], template)
          /\ call[c] \in Requests
      BY <3>1, RenameShape
    <3>3. Waits[c] = call[c] /\ Waits' = [Waits EXCEPT ![c] = Done]
      <4>1. call' = [call EXCEPT ![c] = call[c]]
        BY <3>1 DEF Rename, TypeOK
      <4>2. QED
        BY <3>1, <4>1, WaitsStep DEF Rename, Goes, Waits, Places
    <3>4. call[c].kind \in {"replace", "deleteIf"} => template = seen[c]
      BY <3>2 DEF Applies, CallsMatch, SeenIsPast
    <3>5. template' =
            [state |-> IF call[c].kind \in {"save", "replace"} THEN "live" ELSE "deleted",
             generation |-> template.generation + 1,
             record |-> call[c].record]
      BY <3>1, <3>2 DEF Rename, Written, Live, Deleted, Requests, Kinds
    <3>6. Register!Update(c)
      BY <3>1, <3>2, <3>3, <3>4, <3>5
         DEF Rename, Goes, Applies, Waits, Register!Update, Register!Permitted
    <3>7. QED
      BY <3>6 DEF Register!Next
  <2>6. CASE \E c \in Callers : SyncDirectory(c)
    <3>1. PICK c \in Callers : SyncDirectory(c)
      BY <2>6
    <3>2. Waits[c] = Done /\ Waits' = [Waits EXCEPT ![c] = NoRequest]
      BY <3>1, WaitsStep DEF SyncDirectory, Returns, Waits, Places
    <3>3. Register!Acknowledge(c)
      BY <3>1, <3>2 DEF SyncDirectory, Register!Acknowledge, Waits
    <3>4. QED
      BY <3>3 DEF Register!Next
  <2>7. CASE LosePower
    <3>1. Register!LosePower
      BY <2>7 DEF LosePower, DiskFollows, Register!LosePower
    <3>2. QED
      BY <3>1 DEF Register!Next
  <2>8. CASE UNCHANGED vars
    BY <2>8 DEF vars, Waits
  <2>9. QED
    BY <2>1, <2>2, <2>3, <2>4, <2>5, <2>6, <2>7, <2>8 DEF Next, Step
<1>3. QED
  BY <1>1, <1>2, InvCorrect, PTL DEF Spec, ImplementsVersionedTemplate, Register!Spec

===============================================================================
