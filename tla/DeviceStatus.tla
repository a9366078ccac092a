---------------------------- MODULE DeviceStatus ----------------------------
(***************************************************************************)
(* npu_control_plane/discovery.py, toolchains.py, probe.py and the `status`*)
(* of cli.py: `npu-ctrl discover` and `npu-ctrl toolchain probe` run       *)
(* programs of the machine, any of which may fail, be missing or hang, and *)
(* write what these say to devices.json or toolchains.json; `npu-ctrl      *)
(* status` reads the two files.  Each command is a process of its own.     *)
(*                                                                         *)
(* A report is known by the number of the command that made it, a document *)
(* is the set of its one report; the default of status is the empty set.   *)
(***************************************************************************)
EXTENDS MetadataStore, Sequences

CONSTANTS
  Devices, Toolchains,  \* the paths of devices.json and toolchains.json
  MaxCommands,          \* bound: commands started
  MaxKills              \* bound: processes killed

Kind   == {"discover", "probe", "status"}
Number == 1 .. MaxCommands

ASSUME StatusAssumption ==
  /\ Path = {Devices, Toolchains} /\ Devices # Toolchains
  /\ MaxCommands \in Nat /\ MaxKills \in Nat
  /\ Entry = Number

VARIABLES
  cmd,      \* cmd[p]: the command of process p
  printed,  \* history: printed[x], the newest report of x that its command has printed
  shown,    \* shown[p][x]: what the status of process p has read of x
  floor,    \* history: floor[p][x] is printed[x] when the status of p began
  crossed,  \* history: the paths two commands were making reports for at once
  commands, kills

statusVars == <<printed, shown, floor, crossed, commands, kills>>
vars == <<file, tmp, content, call, overlapped, cmd, printed, shown, floor,
          crossed, commands, kills>>

(* The programs a command runs, in their order.                            *)
Programs(kind) ==
  CASE kind = "discover" -> <<"lsmod", "xrt-smi">>
    [] kind = "probe"    -> <<"clang++", "python3", "xchesscc">>
    [] kind = "status"   -> <<>>

ReportOf(kind) == IF kind = "discover" THEN Devices ELSE Toolchains

(* The steps of a command: before its next program, waiting for one that   *)
(* ends by itself or for one that hangs, in write_json, in the first or    *)
(* the second read_json of status.                                         *)
Over   == {"idle", "done", "raised"}
Active == {"next", "running", "hanging", "publish", "devices", "toolchains"}
Command == [step : Over \cup Active, kind : Kind, ran : 0..3,
            number : Number \cup {0}, text : BOOLEAN]
NoCommand(step) ==
  [step |-> step, kind |-> "status", ran |-> 0, number |-> 0, text |-> TRUE]

Init ==
  /\ StoreInit
  /\ cmd = [p \in Proc |-> NoCommand("idle")]
  /\ printed = [x \in Path |-> 0]
  /\ shown = [p \in Proc |-> [x \in Path |-> 0]]
  /\ floor = shown
  /\ crossed = {}
  /\ commands = 0 /\ kills = 0

-----------------------------------------------------------------------------
Making(p, x) ==
  cmd[p].step \in Active /\ cmd[p].kind # "status" /\ ReportOf(cmd[p].kind) = x

Begin(p, kind) ==
  /\ cmd[p].step \in Over
  /\ commands < MaxCommands
  /\ commands' = commands + 1
  /\ cmd' = [cmd EXCEPT ![p] =
       [step |-> "next", kind |-> kind, ran |-> 0, number |-> commands', text |-> TRUE]]
  /\ crossed' = IF kind # "status" /\ \E q \in Proc : Making(q, ReportOf(kind))
                THEN crossed \cup {ReportOf(kind)} ELSE crossed
  /\ shown' = [shown EXCEPT ![p] = [x \in Path |-> 0]]
  /\ floor' = [floor EXCEPT ![p] = IF kind = "status" THEN printed ELSE shown'[p]]
  /\ UNCHANGED <<storeVars, printed, kills>>

Program(p)     == Programs(cmd[p].kind)[cmd[p].ran + 1]
ProgramsRun(p) == cmd[p].ran = Len(Programs(cmd[p].kind))
Raise(p)       == cmd' = [cmd EXCEPT ![p] = NoCommand("raised")]

(* run_command starts the next program, which will end within the timeout  *)
(* or hang.  A toolchain is not run if which() does not find it, nor       *)
(* xchesscc without a license file.                                        *)
Launch(p) ==
  /\ cmd[p].step = "next" /\ ~ProgramsRun(p)
  /\ \/ \E step \in {"running", "hanging"} : cmd' = [cmd EXCEPT ![p].step = step]
     \/ /\ cmd[p].kind = "probe"
        /\ cmd' = [cmd EXCEPT ![p].ran = @ + 1]
  /\ UNCHANGED <<storeVars, statusVars>>

(* The program ends, with any return code, or there is none (127): all of  *)
(* it becomes text of the report.  Another error of subprocess.run, like   *)
(* an output that is not UTF-8, leaves the command.                        *)
Answer(p) ==
  /\ cmd[p].step = "running"
  /\ \/ cmd' = [cmd EXCEPT ![p].step = "next", ![p].ran = @ + 1]
     \/ Raise(p)
  /\ UNCHANGED <<storeVars, statusVars>>

(* What TimeoutExpired has captured of the output is bytes, which no       *)
(* report can hold: discover puts the stderr of xrt-smi in its warnings,   *)
(* probe the first line of stdout, or else of stderr, of a compiler.       *)
Captured == {"nothing", "stdout", "stderr"}
Reported(program) ==
  CASE program = "xrt-smi"                 -> {"stderr"}
    [] program \in {"clang++", "xchesscc"} -> {"stdout", "stderr"}
    [] OTHER                               -> {}

(* 5 s have passed: the program is killed, the return code is 124.         *)
BugNoTimeout(p) == FALSE /\ UNCHANGED vars
TimeOut(p) ==
  /\ cmd[p].step = "hanging"
  /\ \E captured \in Captured :
       cmd' = [cmd EXCEPT ![p].step = "next", ![p].ran = @ + 1,
                          ![p].text = @ /\ captured \notin Reported(Program(p))]
  /\ UNCHANGED <<storeVars, statusVars>>

-----------------------------------------------------------------------------
Publish(p) ==
  /\ cmd[p].step = "next" /\ cmd[p].kind # "status" /\ ProgramsRun(p)
  /\ OpenTmp(p, ReportOf(cmd[p].kind), {cmd[p].number})
  /\ cmd' = [cmd EXCEPT ![p].step = "publish"]
  /\ UNCHANGED statusVars

(* Of the files of one status, devices.json is read first.                 *)
ReadFile(p, x, step) ==
  /\ CheckExists(p, x)
  /\ cmd' = [cmd EXCEPT ![p].step = step]

ReadDevices(p) ==
  /\ cmd[p].step = "next" /\ cmd[p].kind = "status"
  /\ ReadFile(p, Devices, "devices")
  /\ UNCHANGED statusVars

Newest(d) == IF d = {} THEN 0 ELSE CHOOSE n \in d : TRUE

ReadToolchains(p) ==
  /\ cmd[p].step = "devices" /\ call[p].stage = "ok"
  /\ shown' = [shown EXCEPT ![p][Devices] = Newest(call[p].doc)]
  /\ ReadFile(p, Toolchains, "toolchains")
  /\ UNCHANGED <<printed, floor, crossed, commands, kills>>

(* json.dump raises TypeError at bytes.                                    *)
BugBytesIgnored(p) ==
  /\ cmd[p].step \in {"publish", "devices", "toolchains"}
  /\ IF call[p].stage = "writing" /\ ~cmd[p].text
     THEN /\ content' = [content EXCEPT ![call[p].fd] = Torn]
          /\ call' = [call EXCEPT ![p].stage = "closed"]
          /\ UNCHANGED <<file, tmp, overlapped>>
     ELSE CallStep(p)
  /\ UNCHANGED <<cmd, statusVars>>

StoreStep(p) ==
  /\ cmd[p].step \in {"publish", "devices", "toolchains"}
  /\ IF call[p].stage = "writing" /\ ~cmd[p].text THEN DumpFails(p) ELSE CallStep(p)
  /\ UNCHANGED <<cmd, statusVars>>

BugAnyOutcome(p) == cmd[p].step = "publish" /\ call[p].stage \in {"ok", "error"}
Written(p)       == cmd[p].step = "publish" /\ call[p].stage = "ok"

(* The report, or the status, is printed.                                  *)
Show(p) ==
  /\ \/ /\ Written(p)
        /\ printed' = [printed EXCEPT ![ReportOf(cmd[p].kind)] = cmd[p].number]
        /\ UNCHANGED shown
     \/ /\ cmd[p].step = "toolchains" /\ call[p].stage = "ok"
        /\ shown' = [shown EXCEPT ![p][Toolchains] = Newest(call[p].doc)]
        /\ UNCHANGED printed
  /\ cmd' = [cmd EXCEPT ![p].step = "done"]
  /\ UNCHANGED <<storeVars, floor, crossed, commands, kills>>

(* main catches nothing that these commands raise.                         *)
Fail(p) ==
  /\ cmd[p].step \in {"publish", "devices", "toolchains"}
  /\ call[p].stage = "error"
  /\ Raise(p)
  /\ UNCHANGED <<storeVars, statusVars>>

Proceed(p) ==
  \/ Launch(p) \/ Answer(p) \/ TimeOut(p) \/ Publish(p) \/ ReadDevices(p)
  \/ ReadToolchains(p) \/ StoreStep(p) \/ Show(p) \/ Fail(p)

Kill(p) ==
  /\ kills < MaxKills
  /\ cmd[p].step \in Active
  /\ KillCall(p)
  /\ cmd' = [cmd EXCEPT ![p] = NoCommand("idle")]
  /\ kills' = kills + 1
  /\ UNCHANGED <<printed, shown, floor, crossed, commands>>

Next == \E p \in Proc : (\E kind \in Kind : Begin(p, kind)) \/ Proceed(p) \/ Kill(p)

Spec == Init /\ [][Next]_vars

(* A command goes on until it ends: its programs end by themselves or are  *)
(* killed after 5 s, and it waits for no other process.                    *)
FairSpec == Spec /\ \A p \in Proc : WF_vars(Proceed(p))

-----------------------------------------------------------------------------
TypeOK ==
  /\ StoreTypeOK
  /\ cmd \in [Proc -> Command]
  /\ printed \in [Path -> Number \cup {0}]
  /\ shown \in [Proc -> [Path -> Number \cup {0}]]
  /\ floor \in [Proc -> [Path -> Number \cup {0}]]
  /\ crossed \in SUBSET Path
  /\ commands \in 0..MaxCommands /\ kills \in 0..MaxKills

(* A status shows, of the devices and of the toolchains, a report at least *)
(* as new as the newest that was printed before the status began, whatever *)
(* has failed, hung or been killed since: only two commands that make the  *)
(* same report at once may leave an older one behind, even when their      *)
(* writes do not overlap.                                                  *)
StatusFresh ==
  \A p \in Proc : cmd[p].step = "done" /\ cmd[p].kind = "status" =>
    \A x \in Path \ crossed : shown[p][x] >= floor[p][x]

(* A discover or a probe that fails changes nothing: a report changes only *)
(* to the whole report of a command all of whose programs have answered or *)
(* hung without a word for the report.                                     *)
OnlyWholeReports ==
  [][\A x \in Path \ crossed' : Current(x)' # Current(x) =>
       \E p \in Proc : /\ Making(p, x) /\ ProgramsRun(p) /\ cmd[p].text
                       /\ Current(x)' = Text({cmd[p].number})]_vars

(* Every command ends, although the programs it runs may hang, and a .tmp  *)
(* file that a killed command left stops nobody.                           *)
CommandsEnd ==
  \A p \in Proc : cmd[p].step \in Active ~> cmd[p].step \in Over
=============================================================================
