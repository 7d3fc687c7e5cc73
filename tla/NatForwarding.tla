--------------------------- MODULE NatForwarding ---------------------------
(***************************************************************************)
(* The NAT manager (internal/nat/nat.go): IPv4 forwarding and the nftables *)
(* rules of managed bridges, with the recovery file that undoes both after *)
(* a crash.  The manager's mutex is held for a whole operation, so         *)
(* operations never interleave; what interleaves with them is a crash.     *)
(* Every write to the kernel or to the file is therefore a step of its     *)
(* own, which succeeds or fails, and `at' says which step comes next.      *)
(***************************************************************************)
EXTENDS FiniteSets, Naturals

CONSTANTS
    Bridges,     \* managed bridges with NAT enabled
    NoBridge,
    MaxRestarts  \* bound on crashes, shutdowns and host reboots

ASSUME NatAssumption ==
    /\ NoBridge \notin Bridges
    /\ MaxRestarts \in Nat

VARIABLES
    active,     \* Manager.active
    state,      \* Manager.state
    owned,      \* Manager.owned
    recovering, \* Manager.recovering
    at,         \* the next step of the operation in progress, or "idle"
    arg,        \* the bridge it is about
    first,      \* Start: no bridge was active before
    failed,     \* cleanupLocked: ReplaceRules(nil) has failed
    file,       \* nat-runtime.json
    forwarding, \* net.ipv4.ip_forward
    rules,      \* bridges that have nftables rules
    host,       \* what the host had set before App Runner changed it
    smooth,     \* history: no kernel or file operation has failed so far
    restarts

call == <<arg, first, failed>>
memory == <<active, state, owned, recovering, at, call>>
kernel == <<forwarding, rules>>
vars == <<memory, file, kernel, host, smooth, restarts>>

Settings == {"0", "1"}
Saved == [orig : Settings, changed : {"no", "yes"}]
NoFile == [orig |-> "none", changed |-> "none"]
Steps == {"saveOrig", "saveChanged", "enable", "rules", "saveStarted",
          "undoRules", "stopRules", "restore", "save",
          "cleanRules", "cleanRestore", "remove"}

TypeOK ==
    /\ active \subseteq Bridges
    /\ state \in Saved
    /\ owned \in BOOLEAN
    /\ recovering \in BOOLEAN
    /\ at \in Steps \cup {"idle"}
    /\ arg \in Bridges \cup {NoBridge}
    /\ first \in BOOLEAN
    /\ failed \in BOOLEAN
    /\ file \in Saved \cup {NoFile}
    /\ forwarding \in Settings
    /\ rules \subseteq Bridges
    /\ host \in Settings
    /\ smooth \in BOOLEAN
    /\ restarts \in 0..MaxRestarts

Zero == [orig |-> "0", changed |-> "no"]

Init ==
    /\ active = {}
    /\ state = Zero
    /\ owned = FALSE
    /\ recovering = FALSE
    /\ at = "idle"
    /\ arg = NoBridge
    /\ first = FALSE
    /\ failed = FALSE
    /\ file = NoFile
    /\ host \in Settings
    /\ forwarding = host
    /\ rules = {}
    /\ smooth = TRUE
    /\ restarts = 0
-----------------------------------------------------------------------------
Goto(step) == at' = step
Return ==
    /\ at' = "idle"
    /\ arg' = NoBridge
    /\ first' = FALSE
    /\ failed' = FALSE

(***************************************************************************)
(* Start after its look at Manager.active, up to the next kernel or file   *)
(* operation.  An already active bridge is left as it is.                  *)
(***************************************************************************)
EnableThenRules(b, none, current) ==
    IF none /\ current.orig = "0"
    THEN /\ state' = [current EXCEPT !.changed = "yes"]
         /\ Goto("saveChanged")
         /\ UNCHANGED active
    ELSE /\ state' = current
         /\ active' = active \cup {b}
         /\ Goto("rules")

Start(b) ==
    /\ at = "idle"
    /\ b \notin active
    /\ arg' = b
    /\ first' = (active = {})
    /\ IF active = {} /\ ~owned
       THEN /\ state' = [orig |-> forwarding, changed |-> "no"]
            /\ Goto("saveOrig")
            /\ UNCHANGED active
       ELSE EnableThenRules(b, active = {}, state)
    /\ UNCHANGED <<owned, recovering, failed, file, kernel, host, restarts>>

SaveOriginal(ok) ==
    /\ at = "saveOrig"
    /\ owned' = ok
    /\ IF ok
       THEN /\ file' = state
            /\ EnableThenRules(arg, TRUE, state)
            /\ UNCHANGED call
       ELSE /\ Return
            /\ UNCHANGED <<file, state, active>>
    /\ UNCHANGED <<recovering, kernel, host, restarts>>

\* Mutant: the intention to change forwarding is not written out.
SaveChangedInMemory(ok) ==
    /\ at = "saveChanged"
    /\ Goto("enable")
    /\ UNCHANGED <<active, state, owned, recovering, call, file, kernel,
                   host, restarts>>

(***************************************************************************)
(* The intention to change forwarding is on disk before the kernel is      *)
(* touched.                                                                *)
(***************************************************************************)
SaveChanged(ok) ==
    /\ at = "saveChanged"
    /\ IF ok THEN /\ file' = state
                  /\ Goto("enable")
                  /\ UNCHANGED call
             ELSE Return /\ UNCHANGED file
    /\ UNCHANGED <<active, state, owned, recovering, kernel, host, restarts>>

EnableForwarding(ok) ==
    /\ at = "enable"
    /\ IF ok THEN /\ forwarding' = "1"
                  /\ active' = active \cup {arg}
                  /\ Goto("rules")
             ELSE /\ Goto("cleanRules")
                  /\ UNCHANGED <<forwarding, active>>
    /\ UNCHANGED <<state, owned, recovering, call, file, rules, host,
                   restarts>>

\* Mutant: a bridge stays active though its rules were refused.
InstallRulesKeepingBridge(ok) ==
    /\ at = "rules"
    /\ rules' = IF ok THEN active ELSE rules
    /\ Goto(IF ok THEN "saveStarted"
            ELSE IF first THEN "cleanRules" ELSE "undoRules")
    /\ UNCHANGED <<active, state, owned, recovering, call, file,
                   forwarding, host, restarts>>

(***************************************************************************)
(* ReplaceRules commits one nftables batch: it replaces everything or      *)
(* nothing.                                                                *)
(***************************************************************************)
InstallRules(ok) ==
    /\ at = "rules"
    /\ IF ok THEN /\ rules' = active
                  /\ Goto("saveStarted")
                  /\ UNCHANGED active
             ELSE /\ active' = active \ {arg}
                  /\ Goto(IF first THEN "cleanRules" ELSE "undoRules")
                  /\ UNCHANGED rules
    /\ UNCHANGED <<state, owned, recovering, call, file, forwarding,
                   host, restarts>>

SaveStarted(ok) ==
    /\ at = "saveStarted"
    /\ IF ok THEN file' = state /\ Return /\ UNCHANGED active
             ELSE /\ active' = active \ {arg}
                  /\ Goto("undoRules")
                  /\ UNCHANGED <<file, call>>
    /\ UNCHANGED <<state, owned, recovering, kernel, host, restarts>>

(***************************************************************************)
(* Start's rollback: put the rules of the other bridges back, then clean   *)
(* up if there are none, else save.                                        *)
(***************************************************************************)
UndoRules(ok) ==
    /\ at = "undoRules"
    /\ rules' = IF ok THEN active ELSE rules
    /\ Goto(IF first THEN "cleanRules" ELSE "save")
    /\ UNCHANGED <<active, state, owned, recovering, call, file,
                   forwarding, host, restarts>>

Stop(b) ==
    /\ at = "idle"
    /\ b \in active
    /\ active' = active \ {b}
    /\ arg' = b
    /\ Goto("stopRules")
    /\ UNCHANGED <<state, owned, recovering, first, failed, file, kernel,
                   host, restarts>>

StopRules(ok) ==
    /\ at = "stopRules"
    /\ IF ok THEN /\ rules' = active
                  /\ Goto(IF active # {} THEN "save" ELSE "restore")
                  /\ UNCHANGED <<active, call>>
             ELSE /\ active' = active \cup {arg}
                  /\ Return
                  /\ UNCHANGED rules
    /\ UNCHANGED <<state, owned, recovering, file, forwarding, host, restarts>>

(***************************************************************************)
(* restoreForwardingLocked.                                                *)
(***************************************************************************)
RestoreForwarding(ok) ==
    IF ok /\ state.changed = "yes"
    THEN /\ forwarding' = state.orig
         /\ state' = [state EXCEPT !.changed = "no"]
    ELSE UNCHANGED <<forwarding, state>>

StopRestore(ok) ==
    /\ at = "restore"
    /\ RestoreForwarding(ok)
    /\ Goto(IF ok \/ state.changed = "no" THEN "remove" ELSE "save")
    /\ UNCHANGED <<active, owned, recovering, call, file, rules, host,
                   restarts>>

SaveAndReturn(ok) ==
    /\ at = "save"
    /\ file' = IF ok THEN state ELSE file
    /\ Return
    /\ UNCHANGED <<active, state, owned, recovering, kernel, host, restarts>>

(***************************************************************************)
(* cleanupLocked and removeStateLocked.                                    *)
(***************************************************************************)
CleanRules(ok) ==
    /\ at = "cleanRules"
    /\ rules' = IF ok THEN {} ELSE rules
    /\ failed' = ~ok
    /\ Goto("cleanRestore")
    /\ UNCHANGED <<active, state, owned, recovering, arg, first, file,
                   forwarding, host, restarts>>

\* Mutant: the recovery file goes although the rules could not be removed.
CleanRestoreIgnoresRules(ok) ==
    /\ at = "cleanRestore"
    /\ RestoreForwarding(ok)
    /\ Goto(IF ok \/ state.changed = "no" THEN "remove" ELSE "save")
    /\ UNCHANGED <<active, owned, recovering, call, file, rules, host,
                   restarts>>

CleanRestore(ok) ==
    /\ at = "cleanRestore"
    /\ RestoreForwarding(ok)
    /\ Goto(IF ~failed /\ (ok \/ state.changed = "no")
            THEN "remove" ELSE "save")
    /\ UNCHANGED <<active, owned, recovering, call, file, rules, host,
                   restarts>>

RemoveState(ok) ==
    /\ at = "remove"
    /\ IF ok THEN file' = NoFile /\ owned' = FALSE
             ELSE UNCHANGED <<file, owned>>
    /\ Return
    /\ UNCHANGED <<active, state, recovering, kernel, host, restarts>>

\* Mutant: recovery never cleans up.
FinishRecoveryOnlySaves ==
    /\ at = "idle"
    /\ recovering
    /\ recovering' = FALSE
    /\ Goto("save")
    /\ UNCHANGED <<active, state, owned, call, file, kernel, host,
                   restarts>>

(***************************************************************************)
(* Called once after a restart, when the bridges of all running VMs have   *)
(* been started again.                                                     *)
(***************************************************************************)
FinishRecovery ==
    /\ at = "idle"
    /\ recovering
    /\ recovering' = FALSE
    /\ Goto(IF active # {} THEN "save" ELSE "cleanRules")
    /\ UNCHANGED <<active, state, owned, call, file, kernel, host,
                   restarts>>
-----------------------------------------------------------------------------
(***************************************************************************)
(* App Runner ends, in the middle of an operation or not, and starts       *)
(* again.  A shutdown leaves the rules alone on purpose, so it looks like  *)
(* a crash; a reboot of the host also resets the kernel.                   *)
(***************************************************************************)
NewManager ==
    /\ restarts < MaxRestarts
    /\ restarts' = restarts + 1
    /\ active' = {}
    /\ state' = IF file = NoFile THEN Zero ELSE file
    /\ owned' = (file # NoFile)
    /\ recovering' = (file # NoFile)
    /\ Return
    /\ UNCHANGED <<file, host>>

Restart == NewManager /\ UNCHANGED kernel
HostReboot == NewManager /\ forwarding' = host /\ rules' = {}

Operation == \E b \in Bridges : Start(b) \/ Stop(b)

Step(ok) ==
    \/ SaveOriginal(ok) \/ SaveChanged(ok) \/ EnableForwarding(ok)
    \/ InstallRules(ok) \/ SaveStarted(ok) \/ UndoRules(ok)
    \/ StopRules(ok) \/ StopRestore(ok) \/ SaveAndReturn(ok)
    \/ CleanRules(ok) \/ CleanRestore(ok) \/ RemoveState(ok)

Next ==
    \/ (Operation \/ FinishRecovery \/ Restart \/ HostReboot) /\ UNCHANGED smooth
    \/ \E ok \in BOOLEAN : Step(ok) /\ smooth' = (smooth /\ ok)

Spec == Init /\ [][Next]_vars
-----------------------------------------------------------------------------
(***************************************************************************)
(* Whenever the kernel's forwarding differs from what the host had, the    *)
(* recovery file on disk says so and holds the host's value: a crash       *)
(* between any two steps can be undone on the next start.                  *)
(***************************************************************************)
ForwardingRecoverable ==
    forwarding # host =>
        file.changed = "yes" /\ file.orig = host

(***************************************************************************)
(* Rules in the kernel are never forgotten: while any are installed the    *)
(* recovery file exists, so the next start finds and removes them.         *)
(***************************************************************************)
RulesRecoverable == rules # {} => file # NoFile

(***************************************************************************)
(* Between operations, and whatever failed before, every bridge the        *)
(* manager calls active has its rules and a forwarding kernel.             *)
(***************************************************************************)
ActiveBridgesAreServed ==
    at = "idle" /\ active # {} => forwarding = "1" /\ active \subseteq rules

(***************************************************************************)
(* As long as nothing has failed, no host-wide state is left behind after  *)
(* the last bridge stops, across crashes too: once recovery is finished an idle     *)
(* manager without bridges has no rules, no file and the host's own        *)
(* forwarding.                                                             *)
(***************************************************************************)
NothingLeftBehind ==
    smooth /\ at = "idle" /\ active = {} /\ ~recovering =>
        forwarding = host /\ rules = {} /\ file = NoFile
=============================================================================
