----------------------------- MODULE CommandLine -----------------------------
(***************************************************************************)
(* One person's CLI: commands that run at once from one executable, over   *)
(* one credential store, against servers that each may require a minimum   *)
(* version.  A command that is turned away for its version is what the     *)
(* update is for; the update replaces what the next command runs.          *)
(***************************************************************************)
EXTENDS SelfUpdate, CLIConfig

CONSTANTS
    MaxCommands,    \* bound: commands run
    MaxChanges      \* bound: changes of a minimum, and of the file by hand

ASSUME CommandLineAssumption == Commands = Procs /\ MaxCommands \in Nat /\ MaxChanges \in Nat

VARIABLES commands, changes

vars == <<updateVars, configVars, commands, changes>>

TypeOK ==
    /\ UpdateTypeOK /\ ConfigTypeOK
    /\ commands \in 0 .. MaxCommands /\ changes \in 0 .. MaxChanges
    /\ \A p \in Procs : session[p].at # "idle" <=> update[p].at = "busy"

Init == UpdateInit /\ ConfigInit /\ commands = 0 /\ changes = 0

Run == commands < MaxCommands /\ commands' = commands + 1

Update(p) ==
    /\ Run
    /\ \E force \in BOOLEAN : StartUpdate(p, force)
    /\ UNCHANGED <<configVars, changes>>

Command(p) ==
    /\ Run
    /\ Launch(p, "busy", FALSE)
    /\ \E cmd \in {"login", "logout", "call"} : Begin(p, cmd)
    /\ UNCHANGED changes

\* A command's process ends with it.
Session(p) ==
    /\ SessionStep(p, update[p].runs)
    /\ update' = IF session'[p].at = "idle" THEN Ended(p) ELSE update
    /\ UNCHANGED <<platform, releases, exe, old, ordered, copies, fellBack, last, assured,
                   commands, changes>>

Updating(p) ==
    /\ UpdateStep(p) \/ (update[p].at # "busy" /\ KillUpdate(p))
    /\ UNCHANGED <<configVars, commands, changes>>

Publishing == Publication /\ UNCHANGED <<configVars, commands, changes>>

Change ==
    /\ changes < MaxChanges /\ changes' = changes + 1
    /\ \/ \E a, b \in Bases : EditFile(a, b)
       \/ \E b \in Bases, v \in Minima : SetMinimum(b, v)
    /\ UNCHANGED <<updateVars, commands>>

Next ==
    \/ \E p \in Procs : Update(p) \/ Command(p) \/ Session(p) \/ Updating(p)
    \/ Publishing \/ Change

Spec == Init /\ [][Next]_vars

-----------------------------------------------------------------------------
\* While releases go up and none is withdrawn: a CLI that was told it is up to
\* date is let in by every server whose minimum is a stable release that was out
\* when it asked.
UpToDateIsAdmitted ==
    \A r \in assured : \A b \in Bases : minimum[b] \in r.known => Admits(minimum[b], r.runs)

=============================================================================
