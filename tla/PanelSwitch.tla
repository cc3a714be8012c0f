----------------------------- MODULE PanelSwitch -----------------------------
(* The switch of the control panel (core/web_ui.go, web_ui_handlers.go), the   *)
(* proxy setting of the desktop it works on (core/platform_windows.go) and the *)
(* way the process ends (core/shutdown.go).                                    *)
(*                                                                             *)
(* Requests run side by side. The state of the panel has a lock, but it is not *)
(* held while the callbacks change the setting, which outlives the process; a  *)
(* watchdog process, started by each activation that succeeds, clears the      *)
(* setting when the process is gone. A command that changes the setting, and   *)
(* the start of the watchdog, may fail.                                        *)
EXTENDS Naturals

CONSTANTS
    Requests,       \* requests that can be under way at once
    MaxRequested    \* bound of the model

PanelAssumption == MaxRequested \in Nat

ASSUME PanelAssumption

VARIABLES
    vpnState,
    setting,          \* ProxyEnable of the desktop
    watchdog,       \* whether a watchdog waits for the end of the process
    gone,           \* the process has ended
    request,        \* request -> [at, alone]
    requested,      \* requests so far
    certain         \* the last request ran without another one beside it: history

panelVars == <<vpnState, setting, watchdog, gone, request, requested, certain>>

NoRequest == [at |-> "none", alone |-> TRUE]

PanelTypeOK ==
    /\ vpnState \in {"connected", "connecting", "disconnected", "disconnecting"}
    /\ setting \in BOOLEAN /\ watchdog \in BOOLEAN /\ gone \in BOOLEAN /\ certain \in BOOLEAN
    /\ request \in [Requests -> [alone : BOOLEAN,
          at : {"none", "connect", "enable", "watch", "enabled", "failed",
                "disconnect", "disable", "disabled", "clear", "exit", "tell", "leave"}]]
    /\ requested \in 0 .. MaxRequested

\* main.go: the state told after the start does not depend on whether the setting could be made.
PanelInit ==
    /\ \/ vpnState = "connected" /\ setting \in BOOLEAN /\ watchdog \in (IF setting THEN BOOLEAN ELSE {FALSE})
       \/ vpnState = "disconnected" /\ setting = FALSE /\ watchdog = FALSE
    /\ gone = FALSE /\ request = [r \in Requests |-> NoRequest] /\ requested = 0 /\ certain = FALSE

(***************************************************************************)
(* Requests.                                                               *)
(***************************************************************************)

\* A request comes in; it is alone, and those under way are no longer so.
Begin(r, at) ==
    /\ ~gone /\ request[r].at = "none" /\ requested < MaxRequested
    /\ requested' = requested + 1
    /\ request' = [q \in Requests |->
          IF q = r THEN [at |-> at, alone |-> \A p \in Requests : request[p].at = "none"]
          ELSE [request[q] EXCEPT !.alone = request[q].at = "none"]]
    /\ UNCHANGED <<vpnState, setting, watchdog, gone, certain>>

Goes(r, from, to) ==
    /\ ~gone /\ request[r].at = from
    /\ request' = [request EXCEPT ![r].at = to]
    /\ UNCHANGED <<gone, requested, certain>>

Ends(r, from) ==
    /\ ~gone /\ request[r].at = from
    /\ request' = [request EXCEPT ![r] = NoRequest]
    /\ certain' = request[r].alone
    /\ UNCHANGED <<gone, requested>>

\* handleConnect, handleDisconnect, handleExit and the tool toggle_vpn.
Ask(r, what) == what \in {"connect", "disconnect", "exit"} /\ Begin(r, what)

\* handleCycleState: a state read now decides what is executed later; in between nothing is done.
Cycle(r) ==
    /\ vpnState \in {"connected", "disconnected"}
    /\ Begin(r, IF vpnState = "connected" THEN "disconnect" ELSE "connect")

\* executeConnect. The callback is SetWindowsUserProxy: the setting is made, or it is not and the
\* watchdog is not reached.
Fail(r) == Ends(r, "failed") /\ vpnState' = "disconnected" /\ UNCHANGED <<setting, watchdog>>

StartConnect(r) ==
    Goes(r, "connect", "enable") /\ vpnState' = "connecting" /\ UNCHANGED <<setting, watchdog>>

Enable(r) ==
    \/ Goes(r, "enable", "watch") /\ setting' = TRUE /\ UNCHANGED <<vpnState, watchdog>>
    \/ Goes(r, "enable", "failed") /\ UNCHANGED <<vpnState, setting, watchdog>>

StartWatchdog(r) ==
    \E started \in BOOLEAN :
        /\ Goes(r, "watch", "enabled")
        /\ watchdog' = (watchdog \/ started)
        /\ UNCHANGED <<vpnState, setting>>

EndConnect(r) == Ends(r, "enabled") /\ vpnState' = "connected" /\ UNCHANGED <<setting, watchdog>>

\* executeDisconnect: the setting is cleared by the callback, and again at the end.
StartDisconnect(r) ==
    Goes(r, "disconnect", "disable") /\ vpnState' = "disconnecting" /\ UNCHANGED <<setting, watchdog>>

Disable(r) ==
    \E done \in BOOLEAN :
        Goes(r, "disable", "disabled") /\ setting' = (setting /\ ~done) /\ UNCHANGED <<vpnState, watchdog>>

TellDisconnected(r) ==
    Goes(r, "disabled", "clear") /\ vpnState' = "disconnected" /\ UNCHANGED <<setting, watchdog>>

Clear(r) ==
    \E done \in BOOLEAN :
        Ends(r, "clear") /\ setting' = (setting /\ ~done) /\ UNCHANGED <<vpnState, watchdog>>

(***************************************************************************)
(* The end of the process.                                                 *)
(***************************************************************************)

\* handleExit clears the setting and tells the state, and leaves the rest to a goroutine.
ClearToExit(r) ==
    \E done \in BOOLEAN :
        Goes(r, "exit", "tell") /\ setting' = (setting /\ ~done) /\ UNCHANGED <<vpnState, watchdog>>

TellExit(r) == Goes(r, "tell", "leave") /\ vpnState' = "disconnected" /\ UNCHANGED <<setting, watchdog>>

\* GracefulShutdown: the callback has cleared the setting, or has not within its time.
ExitProcess(r) ==
    \E done \in BOOLEAN :
        /\ ~gone /\ request[r].at = "leave"
        /\ setting' = (setting /\ ~done) /\ gone' = TRUE
        /\ UNCHANGED <<vpnState, watchdog, request, requested, certain>>

Kill == ~gone /\ gone' = TRUE /\ UNCHANGED <<vpnState, setting, watchdog, request, requested, certain>>

Restore ==
    /\ gone /\ watchdog
    /\ setting' = FALSE /\ watchdog' = FALSE
    /\ UNCHANGED <<vpnState, gone, request, requested, certain>>

Execute(r) ==
    \/ StartConnect(r) \/ Enable(r) \/ StartWatchdog(r) \/ EndConnect(r) \/ Fail(r)
    \/ StartDisconnect(r) \/ Disable(r) \/ TellDisconnected(r) \/ Clear(r)
    \/ ClearToExit(r) \/ TellExit(r) \/ ExitProcess(r)

PanelNext ==
    \/ \E r \in Requests : \/ \E what \in {"connect", "disconnect", "exit"} : Ask(r, what)
                           \/ Cycle(r) \/ Execute(r)
    \/ Kill \/ Restore

PanelFairness == WF_panelVars(Restore)

PanelSpec == PanelInit /\ [][PanelNext]_panelVars /\ PanelFairness

(***************************************************************************)
(* Properties.                                                             *)
(***************************************************************************)

\* Once no request is under way the panel shows no transient state, from which it could not be
\* cycled any more; and after a request that ran alone "connected" means that the desktop uses
\* the proxy (web_ui.go:136-169, web_ui_handlers.go:157-168).
PanelSettles ==
    (~gone /\ \A r \in Requests : request[r].at = "none")
        => vpnState \in {"connected", "disconnected"} /\ (certain /\ vpnState = "connected" => setting)

\* However the process ends, in the middle of whatever requests, a desktop some activation of which
\* got as far as its watchdog has its direct connection back (platform_windows.go:110-114).
ProxyIsRestored == (gone /\ watchdog) ~> ~setting
==============================================================================
