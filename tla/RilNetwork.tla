----------------------------- MODULE RilNetwork -----------------------------
(***************************************************************************)
(* Network selection and search (mocha-ril/network.c, mocha-ipc/           *)
(* tapi_network.c) and the two settings that go with it: the selection     *)
(* mode, kept in a file (mocha-ril/util.c), and the network mode.          *)
(*                                                                         *)
(* A selection is answered by whatever comes first, its confirmation or    *)
(* any registration report; a search by the next list of networks.  Both   *)
(* tokens are single, so requests overlap.  The process of the library and *)
(* the modem may each start again, also while the file is being written.   *)
(*                                                                         *)
(* What is only passed on (registration and cell values, signal, time,     *)
(* names) is left out, and so are the success or failure of a completion   *)
(* and tapi_set_selection_mode, which nothing reads back.                  *)
(***************************************************************************)
EXTENDS Integers, Sequences, FiniteSetsExt, RilRequests

CONSTANTS
  Plmn,       (* the networks the modem can find                           *)
  Mode,       (* the network modes the framework can ask for               *)
  MaxType,    (* the system types of an entry are 1 .. MaxType             *)
  MaxEntries, (* bound on the entries of one report of a search            *)
  MaxCmds     (* bound on the commands the modem has not answered          *)

ASSUME NetworkAssumption ==
  /\ MaxType \in Nat \ {0}
  /\ MaxEntries \in Nat
  /\ MaxCmds \in Nat \ {0}

VARIABLES
  sel,      (* tokens.network_selection                                    *)
  qry,      (* tokens.query_avail_networks                                 *)
  spent,    (* history: that token was completed, and is kept all the same *)
  crossed,  (* history: a spent token was completed for another request    *)
  nets,     (* net_select_list: the system type listed for a PLMN, or 0    *)
  best,     (* history: the highest type of each PLMN in the last report   *)
  auto,     (* config.bAutoAttach is AUTO                                  *)
  file,     (* what ril_config.bin holds, "empty" also when there is none  *)
  wanted,   (* history: the selection mode the framework asked for last    *)
  cut,      (* history: since then a write of the file was cut off         *)
  mode,     (* state.net_mode, 0 before it was ever set                    *)
  power,    (* state.power_state; the radio is off unless it is NORMAL     *)
  modem,    (* the network mode the modem works with                       *)
  cmds,     (* the commands the modem has not answered: kind and token     *)
  forgot    (* history: the modem restarted and forgot a command           *)

tokenVars == <<sel, qry, spent, crossed, pending, stray>>
configVars == <<auto, file, wanted, cut>>
radioVars == <<mode, power, modem>>
listVars == <<nets, best>>
vars == <<tokenVars, configVars, radioVars, listVars, cmds, forgot>>

Command == [kind : {"search", "select"}, token : Token \cup {NoToken}]
Listing == [Plmn -> 0 .. MaxType]
Power == {"OFF", "LPM", "NORMAL"}
NoNets == [p \in Plmn |-> 0]

TypeOK ==
  /\ {sel, qry} \subseteq Token \cup {NoToken}
  /\ spent \in BOOLEAN /\ crossed \in BOOLEAN
  /\ nets \in Listing /\ best \in Listing
  /\ auto \in BOOLEAN /\ wanted \in BOOLEAN /\ cut \in BOOLEAN
  /\ file \in {"auto", "manual", "empty"}
  /\ {mode, modem} \subseteq Mode \cup {"unset"}
  /\ power \in Power
  /\ cmds \in Seq(Command)
  /\ forgot \in BOOLEAN
  /\ RequestTypeOK

Init ==
  /\ sel = NoToken /\ qry = NoToken /\ spent = FALSE /\ crossed = FALSE
  /\ nets = NoNets /\ best = NoNets
  /\ auto = TRUE /\ file = "empty" /\ wanted = TRUE /\ cut = FALSE
  /\ mode = "unset" /\ power = "OFF" /\ modem = "unset"
  /\ cmds = <<>> /\ forgot = FALSE
  /\ RequestInit

(* A request of the framework given to the modem.                          *)
Send(kind, t) ==
  /\ Len(cmds) < MaxCmds
  /\ cmds' = Append(cmds, [kind |-> kind, token |-> t])

-----------------------------------------------------------------------------
(* The configuration file.                                                 *)

(* save_ril_config.                                                        *)
Save(a) == file' = IF a THEN "auto" ELSE "manual"

(* load_ril_config: AUTO unless the file has it all.                       *)
Loaded(f) == f # "manual"

-----------------------------------------------------------------------------
(* Requests of the framework.                                              *)

(* ril_request_query_available_networks: the token replaces one that waits.*)
QueryAvailableNetworks(t) ==
  /\ Send("search", t)
  /\ qry' = t
  /\ spent' = FALSE
  /\ Answer({t}, {})
  /\ UNCHANGED <<sel, crossed, configVars, radioVars, listVars, forgot>>

(* Both set_network_selection requests, automatic and manual, when they go *)
(* through: command, token, mode, file.                                    *)
Select(t, a) ==
  /\ Send("select", t)
  /\ sel' = t
  /\ auto' = a
  /\ wanted' = a /\ cut' = FALSE
  /\ Save(a)
  /\ Answer({t}, {})
  /\ UNCHANGED <<qry, spent, crossed, radioVars, listVars, forgot>>

(* ril_request_set_network_selection_automatic.                            *)
SetSelectionAutomatic(t) == Select(t, TRUE)

(* ril_request_set_network_selection_manual: the network must be listed.   *)
SetSelectionManual(t, p) == nets[p] # 0 /\ Select(t, FALSE)

(* The requests answered at once: a manual selection that is not listed,   *)
(* operator, registration, selection mode and network mode queries.        *)
Reply(t) ==
  /\ Answer({t}, {t})
  /\ UNCHANGED <<sel, qry, spent, crossed, configVars, radioVars, listVars, cmds, forgot>>

(* Mutant: the mode is kept and never sent.                                *)
SetPreferredDropped(t, m) ==
  /\ mode' = m
  /\ UNCHANGED modem
  /\ Answer({t}, {t})
  /\ UNCHANGED <<sel, qry, spent, crossed, configVars, power, listVars, cmds, forgot>>

(* ril_request_set_preferred_network_type: the mode is kept in any case,   *)
(* and sent to the modem unless the radio is off.                          *)
SetPreferredNetworkType(t, m) ==
  /\ mode' = m
  /\ modem' = IF power = "NORMAL" THEN m ELSE modem
  /\ Answer({t}, {t})
  /\ UNCHANGED <<sel, qry, spent, crossed, configVars, power, listVars, cmds, forgot>>

(* ril_request_radio_power: power on runs network_start, which gives the   *)
(* modem both settings.                                                    *)
PowerOn(t) ==
  /\ power # "OFF"
  /\ power' = "NORMAL"
  /\ modem' = mode
  /\ Answer({t}, {t})
  /\ UNCHANGED <<sel, qry, spent, crossed, configVars, mode, listVars, cmds, forgot>>

PowerOff(t) ==
  /\ power # "OFF"
  /\ power' = "LPM"
  /\ Answer({t}, {t})
  /\ UNCHANGED <<sel, qry, spent, crossed, configVars, mode, modem, listVars, cmds, forgot>>

-----------------------------------------------------------------------------
(* Indications of the modem.                                               *)

(* The reports a search can give.                                          *)
Entry == Plmn \X (1 .. MaxType)
Report == UNION {[1 .. n -> Entry] : n \in 0 .. MaxEntries}

(* Mutant: an entry of a network that is listed is left out.               *)
ListedFirst(report) ==
  LET list[n \in 0 .. Len(report)] ==
        IF n = 0 THEN NoNets
        ELSE LET p == report[n][1]
             IN IF list[n - 1][p] # 0 THEN list[n - 1]
                ELSE [list[n - 1] EXCEPT ![p] = report[n][2]]
  IN list[Len(report)]

(* The list ipc_network_search_cnf builds, entry by entry, from nothing.   *)
Listed(report) ==
  LET list[n \in 0 .. Len(report)] ==
        IF n = 0 THEN NoNets
        ELSE LET p == report[n][1]
             IN IF list[n - 1][p] < report[n][2]
                THEN [list[n - 1] EXCEPT ![p] = report[n][2]]
                ELSE list[n - 1]
  IN list[Len(report)]

(* What the list should be.                                                *)
Best(report) ==
  [p \in Plmn |-> Max({0} \cup {e[2] : e \in {report[i] : i \in {j \in DOMAIN report : report[j][1] = p}}})]

(* ipc_network_search_cnf: the token is completed and kept; after its      *)
(* second completion the framework no longer waits for it.                 *)
SearchCnf(report) ==
  /\ cmds # <<>> /\ Head(cmds).kind = "search"
  /\ cmds' = Tail(cmds)
  /\ nets' = Listed(report)
  /\ best' = Best(report)
  /\ Answer({}, {qry})
  /\ crossed' = (crossed \/ (spent /\ qry \in pending))
  /\ spent' = TRUE
  /\ UNCHANGED <<sel, qry, configVars, radioVars, forgot>>

(* ipc_network_select_cnf: no test for a token; registered means the list  *)
(* is dropped.                                                             *)
SelectCnf(full) ==
  /\ cmds # <<>> /\ Head(cmds).kind = "select"
  /\ cmds' = Tail(cmds)
  /\ Answer({}, {sel})
  /\ sel' = NoToken
  /\ nets' = IF full THEN NoNets ELSE nets
  /\ UNCHANGED <<qry, spent, crossed, best, configVars, radioVars, forgot>>

(* Mutant: the token is not cleared.                                       *)
NetworkSelectKept(full) ==
  /\ sel # NoToken
  /\ Answer({}, {sel})
  /\ nets' = IF full THEN NoNets ELSE nets
  /\ UNCHANGED <<sel, qry, spent, crossed, best, configVars, radioVars, cmds, forgot>>

(* Mutant: the token is cleared before it is completed.                    *)
NetworkSelectCleared(full) ==
  /\ sel' = NoToken
  /\ nets' = IF full /\ sel # NoToken THEN NoNets ELSE nets
  /\ UNCHANGED <<qry, spent, crossed, pending, stray, best, configVars, radioVars, cmds, forgot>>

(* ipc_network_select, at any time: a token that waits is completed.       *)
NetworkSelect(full) ==
  /\ \/ /\ sel = NoToken
        /\ UNCHANGED <<sel, nets, pending, stray>>
     \/ /\ sel # NoToken
        /\ Answer({}, {sel})
        /\ sel' = NoToken
        /\ nets' = IF full THEN NoNets ELSE nets
  /\ UNCHANGED <<qry, spent, crossed, best, configVars, radioVars, cmds, forgot>>

(* ipc_cp_system_start: a modem that (re)starts has forgotten what it was  *)
(* told; the library keeps its tokens.                                     *)
CpSystemStart ==
  /\ power' = "LPM"
  /\ modem' = "unset"
  /\ cmds' = <<>>
  /\ forgot' = (forgot \/ cmds # <<>>)
  /\ UNCHANGED <<tokenVars, configVars, mode, listVars>>

-----------------------------------------------------------------------------
(* The process of the library ends and starts again (ril_data_init): the   *)
(* framework asks anew, the modem still answers its commands, the          *)
(* configuration is read back from the file `f'.                           *)
StartAgain(f) ==
  /\ sel' = NoToken /\ qry' = NoToken /\ spent' = FALSE
  /\ nets' = NoNets
  /\ auto' = Loaded(f)
  /\ mode' = "unset"
  /\ power' = "OFF"
  /\ pending' = {}
  /\ cmds' = [i \in DOMAIN cmds |-> [cmds[i] EXCEPT !.token = NoToken]]
  /\ UNCHANGED <<best, modem, stray, crossed, forgot>>

Restart ==
  /\ StartAgain(file)
  /\ UNCHANGED <<file, wanted, cut>>

(* The same in the middle of save_ril_config: the file was cut to nothing  *)
(* when it was opened, and is not written.                                 *)
RestartInSave ==
  /\ StartAgain("empty")
  /\ file' = "empty"
  /\ cut' = TRUE
  /\ UNCHANGED wanted

Request(t) ==
  \/ QueryAvailableNetworks(t)
  \/ SetSelectionAutomatic(t) \/ \E p \in Plmn : SetSelectionManual(t, p)
  \/ Reply(t)
  \/ \E m \in Mode : SetPreferredNetworkType(t, m)
  \/ PowerOn(t) \/ PowerOff(t)

Confirm ==
  \/ \E report \in Report : SearchCnf(report)
  \/ \E full \in BOOLEAN : SelectCnf(full)

Next ==
  \/ \E t \in Token : Idle(t) /\ Request(t)
  \/ Confirm
  \/ \E full \in BOOLEAN : NetworkSelect(full)
  \/ CpSystemStart
  \/ Restart \/ RestartInSave

Spec == Init /\ [][Next]_vars

(* A modem that stays up answers its commands.                             *)
FairSpec == Spec /\ WF_vars(Confirm)

-----------------------------------------------------------------------------
(* Safety.                                                                 *)

(* The last command of a kind that the modem has is the one for t.         *)
LastFor(kind, t) ==
  \E i \in DOMAIN cmds :
    /\ cmds[i] = [kind |-> kind, token |-> t]
    /\ \A j \in DOMAIN cmds : cmds[j].kind = kind => j <= i

(* ipc_network_select, ipc_network_select_cnf, ipc_network_search_cnf:     *)
(* whoever takes a token early, the report of another network or the       *)
(* answer to an earlier command, no token that waits is without an answer  *)
(* to come, because the last command of its kind is its own and is with    *)
(* the modem, unless that restarts.  The exception is a search token that *)
(* was not cleared and is completed for a later request, after the         *)
(* framework has used it again.                                            *)
Awaited ==
  /\ ~crossed /\ sel # NoToken => sel \in pending
  /\ ~crossed /\ qry # NoToken /\ ~spent => qry \in pending
  /\ ~forgot =>
       /\ sel # NoToken => LastFor("select", sel)
       /\ qry # NoToken /\ ~spent => LastFor("search", qry)

(* ipc_network_search_cnf, ril_net_select_unregister: what a manual        *)
(* selection can name is the best entry of its PLMN in the last report of  *)
(* the modem, whatever was listed before, or nothing.                      *)
ListFromReport == nets \in {NoNets, best}

(* ril_request_set_preferred_network_type, save_ril_config: through power  *)
(* off, restarts of the modem and of the library, the modem works in the   *)
(* mode the library reports, and the library starts the network with the   *)
(* selection mode the framework asked for last.  A restart that cuts off a *)
(* write of the file loses that: the mode is AUTO, the default, then,      *)
(* until the framework asks for one again.                                 *)
SettingsKept ==
  /\ power = "NORMAL" => modem = mode
  /\ auto = (cut \/ wanted)

-----------------------------------------------------------------------------
(* Liveness: a selection that is kept is answered, unless a later one      *)
(* takes its place or the modem restarts and forgets it.                   *)
SelectionAnswered ==
  sel = AnyToken ~>
    (AnyToken \notin pending \/ sel \notin {AnyToken, NoToken} \/ forgot)
=============================================================================
