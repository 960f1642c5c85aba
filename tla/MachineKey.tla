------------------------------- MODULE MachineKey ------------------------------
(***************************************************************************)
(* The key providers of faceauth-storage: TpmKeyProvider, whose key is     *)
(* sealed in a blob, and FileKeyProvider, whose key is the file itself.    *)
(* load_key creates the key if its file is missing.                        *)
(*                                                                         *)
(* Callers are store methods of several processes, and the storage doctor; *)
(* no lock orders them, since a store's lock is that of one account.  The  *)
(* TPM is a function here: it unseals what it sealed.                      *)
(*                                                                         *)
(* Slip definitions are deliberate errors, as in SessionManager.           *)
(***************************************************************************)
EXTENDS Naturals

CONSTANTS
  Callers,
  Providers,  \* "sealed" for TpmKeyProvider, "file" for FileKeyProvider
  MaxKeys,    \* bound on the keys drawn
  MaxLoads,   \* bound on the loads of one caller
  MaxLosses,  \* bound on the losses of power
  None        \* no file, or no key

ASSUME KeyAssumption ==
  /\ Providers \subseteq {"sealed", "file"}
  /\ MaxKeys \in Nat \ {0}
  /\ MaxLoads \in Nat
  /\ MaxLosses \in Nat
  /\ None \notin Nat

VARIABLES
  provider,
  file,    \* what the key's name leads to
  disk,    \* what it may lead to after a loss of power
  place,   \* where each caller stands
  draft,   \* the key a creator has drawn
  loads,   \* loads of each caller
  drawn,   \* keys drawn so far: the n-th is n
  used,    \* history: keys that load_key returned
  losses   \* losses of power so far

vars == <<provider, file, disk, place, draft, loads, drawn, used, losses>>

\* A key file that was created and is not yet, or will never be, 32 bytes long.
Short == 0
Keys == 1..MaxKeys
Files == Keys \cup {Short, None}
Places == {"resting", "looking", "reading", "creating", "writing", "syncing",
           "renaming", "settling"}

\* There is no key yet, or there is one from before.
Init ==
  /\ provider \in Providers
  /\ drawn \in {0, 1}
  /\ file = IF drawn = 0 THEN None ELSE drawn
  /\ disk = {file}
  /\ place = [c \in Callers |-> "resting"]
  /\ draft = [c \in Callers |-> None]
  /\ loads = [c \in Callers |-> 0]
  /\ used = IF drawn = 0 THEN {} ELSE {file}
  /\ losses = 0

-------------------------------------------------------------------------------

Goes(c, from, to) ==
  /\ place[c] = from
  /\ place' = [place EXCEPT ![c] = to]
  /\ UNCHANGED <<provider, loads, losses>>

Returns(c) ==
  /\ place' = [place EXCEPT ![c] = "resting"]
  /\ draft' = [draft EXCEPT ![c] = None]
  /\ UNCHANGED <<provider, loads, drawn, losses>>

Call(c) ==
  /\ place[c] = "resting"
  /\ loads[c] < MaxLoads
  /\ loads' = [loads EXCEPT ![c] = @ + 1]
  /\ place' = [place EXCEPT ![c] = "looking"]
  /\ UNCHANGED <<provider, file, disk, draft, drawn, used, losses>>

\* symlink_metadata of the blob, or the open of the key file.
Look(c) ==
  /\ Goes(c, "looking", IF file = None THEN "creating" ELSE "reading")
  /\ UNCHANGED <<file, disk, draft, drawn, used>>

\* Any error of the TPM, and not only a missing blob, makes a new key.
SlipRead(c) ==
  /\ Goes(c, "reading", "creating")
  /\ UNCHANGED <<file, disk, draft, drawn, used>>

\* A blob or a key of the wrong length is an error.
Read(c) ==
  /\ place[c] = "reading"
  /\ used' = IF file \in Keys THEN used \cup {file} ELSE used
  /\ Returns(c)
  /\ UNCHANGED <<file, disk>>

-------------------------------------------------------------------------------

\* TpmKeyProvider::create_sealed_key draws and seals a key of its own.
Draw(c) ==
  /\ provider = "sealed"
  /\ drawn < MaxKeys
  /\ Goes(c, "creating", "writing")
  /\ drawn' = drawn + 1
  /\ draft' = [draft EXCEPT ![c] = drawn']
  /\ UNCHANGED <<file, disk, used>>

\* atomic_write_blob: the temporary file is written and synced ...
WriteBlob(c) ==
  /\ provider = "sealed"
  /\ Goes(c, "writing", "renaming")
  /\ UNCHANGED <<file, disk, draft, drawn, used>>

\* ... renamed over whatever blob there is ...
Rename(c) ==
  /\ Goes(c, "renaming", "settling")
  /\ file' = draft[c]
  /\ disk' = disk \cup {file'}
  /\ UNCHANGED <<draft, drawn, used>>

\* ... and the directory is synced.
SyncDirectory(c) ==
  /\ place[c] = "settling"
  /\ disk' = {file}
  /\ used' = used \cup {draft[c]}
  /\ Returns(c)
  /\ UNCHANGED file

-------------------------------------------------------------------------------

\* FileKeyProvider::create_key opens with create_new; a loser loads again.
Create(c) ==
  /\ provider = "file"
  /\ drawn < MaxKeys
  /\ drawn' = drawn + 1
  /\ IF file = None
     THEN /\ Goes(c, "creating", "writing")
          /\ draft' = [draft EXCEPT ![c] = drawn']
          /\ file' = Short
          /\ disk' = disk \cup {Short}
     ELSE /\ Goes(c, "creating", "looking")
          /\ UNCHANGED <<draft, file, disk>>
  /\ UNCHANGED used

WriteKey(c) ==
  /\ provider = "file"
  /\ Goes(c, "writing", "syncing")
  /\ file' = draft[c]
  /\ disk' = disk \cup {file'}
  /\ UNCHANGED <<draft, drawn, used>>

\* The file is synced; the directory that names it is not.
SyncKey(c) ==
  /\ place[c] = "syncing"
  /\ disk' = {None, file}
  /\ used' = used \cup {draft[c]}
  /\ Returns(c)
  /\ UNCHANGED file

-------------------------------------------------------------------------------

\* Any step may fail: the temporary blob is removed, the key file stays.  A
\* method that draws no key within the bound fails too.
Fail(c) ==
  /\ place[c] # "resting"
  /\ Returns(c)
  /\ UNCHANGED <<file, disk, used>>

\* Power is lost under sealed blobs only: nothing syncs the directory of a
\* key file, so a loss may take the key at any time.
LosePower ==
  /\ provider = "sealed"
  /\ losses < MaxLosses
  /\ losses' = losses + 1
  /\ file' \in disk
  /\ disk' = {file'}
  /\ place' = [c \in Callers |-> "resting"]
  /\ draft' = [c \in Callers |-> None]
  /\ UNCHANGED <<provider, loads, drawn, used>>

Next ==
  \/ LosePower
  \/ \E c \in Callers :
       \/ Call(c) \/ Look(c) \/ Read(c) \/ Fail(c)
       \/ Draw(c) \/ WriteBlob(c) \/ Rename(c) \/ SyncDirectory(c)
       \/ Create(c) \/ WriteKey(c) \/ SyncKey(c)

Spec == Init /\ [][Next]_vars

-------------------------------------------------------------------------------

\* Type correctness of both providers; a key that load_key returned is a
\* whole one.
TypeOK ==
  /\ provider \in Providers
  /\ file \in Files
  /\ disk \subseteq Files
  /\ place \in [Callers -> Places]
  /\ draft \in [Callers -> Keys \cup {None}]
  /\ loads \in [Callers -> 0..MaxLoads]
  /\ drawn \in 0..MaxKeys
  /\ used \subseteq Keys
  /\ losses \in 0..MaxLosses

\* Whoever loads the key gets the same one: a template that one caller
\* encrypts can be decrypted by the next (load_key of TpmKeyProvider).
KeysAgree == \A k, l \in used : k = l

\* Creators that have yet to put their key in the file's place.
Creating == {c \in Callers : place[c] \in {"creating", "writing", "renaming"}}

\* A blob is on the disk, and nobody is about to replace it.
Settled == file \in Keys /\ disk = {file} /\ Creating = {}

\* Once that is so it stays so, with the same key, whatever fails and even if
\* the power is lost (load_key, create_sealed_key).
SettledKeyStands == [][Settled => Settled' /\ UNCHANGED file]_vars

===============================================================================
