--------------------------- MODULE KernelRegistry ---------------------------
(***************************************************************************)
(* npu_control_plane/registry.py: `npu-ctrl kernels register` copies an    *)
(* artifact into the store and lists it in registry/kernels/index.json.    *)
(* Any number of npu-ctrl processes register kernels at once; the artifact *)
(* files are written by a build that is not part of this system.  The copy *)
(* and the read, change and write of the index are separate steps.         *)
(***************************************************************************)
EXTENDS MetadataStore

CONSTANTS
  Index,          \* the path of index.json
  Name,           \* what name__shape__dtype__toolchain tells apart
  BadName,        \* the names that _validate_name refuses
  Artifact,       \* the artifact files given to register
  SuffixOf,       \* SuffixOf[a]: the suffix of the artifact file a
  Bits,           \* contents of artifact files; each is its own hash
  Source,         \* the source hashes given with --source-hash
  Short, ShortOf, \* ShortOf[h]: the first 12 characters of the hash h
  Escaping,       \* the keys that would lead out of the root of the store
  None,           \* no file, no --source-hash, no value yet
  Empty, Damaged, \* a file of no bytes, a file of bytes nobody built
  Requests,       \* the [name, artifact, source] given to register
  MaxCommands,    \* bound: register commands started
  MaxKills,       \* bound: processes killed
  MaxBuilds       \* bound: times the build changes an artifact file

Key    == [name : Name, source : Short]
File   == [key : Key, suffix : {SuffixOf[a] : a \in Artifact}]
Listed == [key : Key, file : File, hash : Bits]

ASSUME RegistryAssumption ==
  /\ Index \in Path
  /\ Entry = Listed
  /\ ShortOf \in [Source \cup Bits -> Short]
  /\ Escaping \subseteq Key
  /\ Requests \subseteq [name : Name, artifact : Artifact, source : Source \cup {None}]
  /\ None \notin Source \cup Bits \cup Name \cup Artifact
  /\ {None, Empty, Damaged} \cap Bits = {}
  /\ None # Empty /\ None # Damaged /\ Empty # Damaged
  /\ MaxCommands \in Nat /\ MaxKills \in Nat /\ MaxBuilds \in Nat

VARIABLES
  built,   \* built[a]: what the artifact file a holds
  stored,  \* stored[f]: what registry/kernels/artifacts/f holds
  reg,     \* reg[p]: the register command of process p
  raced,   \* history: two commands were updating the index at once
  acked,   \* history: the keys of the commands that reported success
  alone,   \* history: the commands that copied what they had hashed, and whose
           \* file no other command has opened since and until they end
  sound,   \* history: the files that one of these has registered, and that no
           \* command has opened since
  commands, kills, builds

counters == <<commands, kills, builds>>
vars     == <<file, tmp, content, call, overlapped,
              built, stored, reg, raced, acked, alone, sound, commands, kills, builds>>

(* The steps of register: about to hash, about to copy, in copy2, about to *)
(* read the index, in read_json, in write_json.                            *)
Over   == {"idle", "done", "refused"}
Active == {"hash", "copy", "copying", "copied", "index", "publish"}
Command == [step : Over \cup Active,
            name : Name \cup {None}, artifact : Artifact \cup {None},
            source : Source \cup Bits \cup {None},
            hash : Bits \cup {None},    \* artifact_hash
            taken : Bits \cup {None}]   \* what copy2 has read

NoCommand(step) == [step |-> step, name |-> None, artifact |-> None,
                 source |-> None, hash |-> None, taken |-> None]

SourceOr(source, bits) == IF source = None THEN bits ELSE source

KeyOf(r)   == [name |-> r.name, source |-> ShortOf[r.source]]
BugFileByName(r) == [key |-> [name |-> r.name, source |-> CHOOSE x \in Short : TRUE],
                     suffix |-> CHOOSE x \in {SuffixOf[a] : a \in Artifact} : TRUE]
FileOf(r)  == [key |-> KeyOf(r), suffix |-> SuffixOf[r.artifact]]
EntryOf(r) == [key |-> KeyOf(r), file |-> FileOf(r), hash |-> r.hash]
KeysIn(d)  == {e.key : e \in d}

(* The entries of the index d that stay when r is registered.              *)
BugKeptUnlessEqual(d, r) == {e \in d : e # EntryOf(r)}
BugKeptByName(d, r)      == {e \in d : e.key.name # r.name}
Kept(d, r)               == {e \in d : e.key # KeyOf(r)}

Init ==
  /\ StoreInit
  /\ built \in [Artifact -> Bits]
  /\ stored = [f \in File |-> None]
  /\ reg = [p \in Proc |-> NoCommand("idle")]
  /\ raced = FALSE
  /\ acked = {} /\ alone = {} /\ sound = {}
  /\ commands = 0 /\ kills = 0 /\ builds = 0

-----------------------------------------------------------------------------
(* register                                                                *)

Refuse(p) == reg' = [reg EXCEPT ![p] = NoCommand("refused")]

(* _validate_name and the is_file check: main answers 2 to what they raise.*)
Start(p, r) ==
  /\ reg[p].step \in Over
  /\ commands < MaxCommands
  /\ IF r.name \in BadName \/ built[r.artifact] = None
     THEN Refuse(p)
     ELSE reg' = [reg EXCEPT ![p] =
                    [step |-> "hash", name |-> r.name, artifact |-> r.artifact,
                     source |-> r.source, hash |-> None, taken |-> None]]
  /\ commands' = commands + 1
  /\ UNCHANGED <<storeVars, built, stored, raced, acked, alone, sound, kills, builds>>

(* _hash_file; without a --source-hash the key is made of this hash.  The  *)
(* ValueError of store.path comes before anything is copied.               *)
HashFile(p) ==
  LET bits == built[reg[p].artifact]
      next == [reg[p] EXCEPT !.step = "copy", !.hash = bits, !.source = SourceOr(@, bits)]
  IN  /\ reg[p].step = "hash"
      /\ IF bits = None \/ KeyOf(next) \in Escaping
         THEN Refuse(p)
         ELSE reg' = [reg EXCEPT ![p] = next]
      /\ UNCHANGED <<storeVars, built, stored, raced, acked, alone, sound, counters>>

(* p has opened the file f for its copy, and its command goes on.          *)
HasOpened(p, f) ==
  /\ reg[p].step \in {"copying", "copied", "index", "publish"}
  /\ FileOf(reg[p]) = f

Others(p) == {q \in Proc \ {p} : HasOpened(q, FileOf(reg[p]))}

(* copy2 opens the artifact, then creates or truncates the destination.    *)
OpenCopy(p) ==
  LET bits == built[reg[p].artifact]
      f    == FileOf(reg[p])
  IN  /\ reg[p].step = "copy"
      /\ IF bits = None
         THEN Refuse(p) /\ UNCHANGED <<stored, alone, sound>>
         ELSE /\ reg' = [reg EXCEPT ![p].step = "copying", ![p].taken = bits]
              /\ stored' = [stored EXCEPT ![f] = Empty]
              /\ alone' = IF Others(p) = {} /\ bits = reg[p].hash
                          THEN alone \cup {p}
                          ELSE alone \ Others(p)
              /\ sound' = sound \ {f}
      /\ UNCHANGED <<storeVars, built, raced, acked, counters>>

(* The bytes reach the destination; they are mixed with those of another   *)
(* copy that is in progress or that has filled the file in the meantime.   *)
FinishCopy(p) ==
  LET f     == FileOf(reg[p])
      bits  == reg[p].taken
      mixed == \/ stored[f] \notin {Empty, bits}
               \/ \E q \in Others(p) : reg[q].step = "copying"
  IN  /\ reg[p].step = "copying"
      /\ \E b \in IF mixed THEN {bits, Damaged} ELSE {bits} :
           stored' = [stored EXCEPT ![f] = b]
      /\ reg' = [reg EXCEPT ![p].step = "copied"]
      /\ UNCHANGED <<storeVars, built, raced, acked, alone, sound, counters>>

(* What a command that ends in the middle of copy2 leaves in its file:     *)
(* what was there, a beginning of the bytes, or all of them.               *)
BreakOff(p) ==
  LET f == FileOf(reg[p])
  IN  IF reg[p].step = "copying"
      THEN \E b \in {stored[f], Damaged, reg[p].taken} :
             stored' = [stored EXCEPT ![f] = b]
      ELSE UNCHANGED stored

(* OSError: the artifact cannot be read, a directory or the destination    *)
(* cannot be made, the disk is full, copystat fails.                       *)
CopyFails(p) ==
  /\ reg[p].step \in {"hash", "copy", "copying"}
  /\ BreakOff(p)
  /\ Refuse(p)
  /\ alone' = alone \ {p}
  /\ UNCHANGED <<storeVars, built, raced, acked, sound, counters>>

InIndex(p) == reg[p].step \in {"index", "publish"}

(* p has begun to read the index and has not yet replaced it.              *)
Updating(p) ==
  \/ reg[p].step = "index"
  \/ reg[p].step = "publish" /\ call[p].stage \in WriteStage

BugCopyLater(p) == reg[p].step \in {"copy", "copied"}
Copied(p)       == reg[p].step = "copied"

(* self._index()                                                           *)
ReadIndex(p) ==
  /\ Copied(p)
  /\ CheckExists(p, Index)
  /\ reg' = [reg EXCEPT ![p].step = "index"]
  /\ raced' = (raced \/ \E q \in Proc \ {p} : Updating(q))
  /\ UNCHANGED <<built, stored, acked, alone, sound, counters>>

(* The entry of the same key is dropped, the new one added: _write_index.  *)
WriteIndex(p) ==
  /\ reg[p].step = "index"
  /\ call[p].stage = "ok"
  /\ OpenTmp(p, Index, Kept(call[p].doc, reg[p]) \cup {EntryOf(reg[p])})
  /\ reg' = [reg EXCEPT ![p].step = "publish"]
  /\ UNCHANGED <<built, stored, raced, acked, alone, sound, counters>>

StoreStep(p) ==
  /\ InIndex(p)
  /\ CallStep(p)
  /\ UNCHANGED <<built, stored, reg, raced, acked, alone, sound, counters>>

BugAnyOutcome(p) == reg[p].step = "publish" /\ call[p].stage \in {"ok", "error"}
Published(p)     == reg[p].step = "publish" /\ call[p].stage = "ok"

Finish(p) ==
  /\ Published(p)
  /\ reg' = [reg EXCEPT ![p] = NoCommand("done")]
  /\ acked' = acked \cup {KeyOf(reg[p])}
  /\ sound' = IF p \in alone THEN sound \cup {FileOf(reg[p])} ELSE sound
  /\ alone' = alone \ {p}
  /\ UNCHANGED <<storeVars, built, stored, raced, counters>>

(* JSONDecodeError, FileNotFoundError and OSError of the store: main       *)
(* prints an error and answers 2.                                          *)
Fail(p) ==
  /\ InIndex(p)
  /\ call[p].stage = "error"
  /\ Refuse(p)
  /\ alone' = alone \ {p}
  /\ UNCHANGED <<storeVars, built, stored, raced, acked, sound, counters>>

Register(p) ==
  \/ HashFile(p) \/ OpenCopy(p) \/ FinishCopy(p) \/ CopyFails(p)
  \/ ReadIndex(p) \/ WriteIndex(p) \/ StoreStep(p) \/ Finish(p) \/ Fail(p)

-----------------------------------------------------------------------------
(* The process is killed.                                                  *)
Kill(p) ==
  /\ kills < MaxKills
  /\ reg[p].step \in Active
  /\ BreakOff(p)
  /\ KillCall(p)
  /\ reg' = [reg EXCEPT ![p] = NoCommand("idle")]
  /\ kills' = kills + 1
  /\ alone' = alone \ {p}
  /\ UNCHANGED <<built, raced, acked, sound, commands, builds>>

(* External: the build replaces or removes an artifact file.               *)
Build(a) ==
  /\ builds < MaxBuilds
  /\ \E b \in (Bits \cup {None}) \ {built[a]} : built' = [built EXCEPT ![a] = b]
  /\ builds' = builds + 1
  /\ UNCHANGED <<storeVars, stored, reg, raced, acked, alone, sound, commands, kills>>

Next ==
  \/ \E p \in Proc : (\E r \in Requests : Start(p, r)) \/ Register(p) \/ Kill(p)
  \/ \E a \in Artifact : Build(a)

Spec == Init /\ [][Next]_vars

-----------------------------------------------------------------------------
TypeOK ==
  /\ StoreTypeOK
  /\ built \in [Artifact -> Bits \cup {None}]
  /\ stored \in [File -> Bits \cup {None, Empty, Damaged}]
  /\ reg \in [Proc -> Command]
  /\ \A p \in Proc : reg[p].step \in Active \ {"hash"} => KeyOf(reg[p]) \in Key
  /\ raced \in BOOLEAN
  /\ acked \in SUBSET Key /\ alone \in SUBSET Proc /\ sound \in SUBSET File
  /\ commands \in 0..MaxCommands /\ kills \in 0..MaxKills /\ builds \in 0..MaxBuilds

Indexed == Current(Index).doc

(* However commands interleave and die, and even where the index loses     *)
(* entries to a race, no index that can be read lists one key twice:       *)
(* register drops the entry of its key before it adds its own.             *)
KeysUnique ==
  \A e, f \in Indexed : e.key = f.key => e = f

(* However commands interleave and die, an artifact file that the index    *)
(* lists has been created: register copies before it lists.                *)
ListedArtifactExists ==
  \A e \in Indexed : stored[e.file] # None

(* A key whose registration was reported as a success stays listed, as     *)
(* long as no two commands have updated the index at the same time.        *)
AckedStaysListed ==
  ~raced => acked \subseteq KeysIn(Indexed)

(* A registration never removes another kernel from the index, whether it  *)
(* succeeds, fails or is killed, as long as no two commands have updated   *)
(* the index at the same time.                                             *)
NothingForgotten ==
  [][~raced' => KeysIn(Indexed) \subseteq KeysIn(Indexed')]_vars

(* Once a command that no other met in its file has reported success, the  *)
(* index lists that file with the hash of the bytes it holds, until it is  *)
(* opened again: whatever builds, kills, full disks and other registrations*)
(* do before, between and after, and whatever they have left in the file.  *)
(* Only two updates of the index at once can bring back an older entry.    *)
ListedArtifactIntact ==
  ~raced => \A e \in Indexed : e.file \in sound => stored[e.file] = e.hash
=============================================================================
