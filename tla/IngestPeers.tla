----------------------------- MODULE IngestPeers -----------------------------
(***************************************************************************)
(* The ingest servers as peers of one another (fog/ingest/server:          *)
(* controller.rs, controller_state.rs, ingest_peer_service.rs,             *)
(* connection.rs and the PeerCheckupWorker): the peer checks of activate   *)
(* and of a restart, the backup of the ingress key and of the peer list on *)
(* the peers, and the periodic peer_checkup.                               *)
(*                                                                         *)
(* activate keeps the controller_state mutex of its server while it calls  *)
(* its peers, whose handlers take their own; peer_checkup does not.  The   *)
(* calls have no deadline: a call to a server that is up and whose mutex   *)
(* is taken waits.  Scanning is the subject of IngestController.           *)
(***************************************************************************)
EXTENDS Naturals, FiniteSets

CONSTANTS
    Servers,     \* the ingest servers
    Keys,        \* ingress keys
    Configs,     \* possible configurations: the peer list of each server
    InitialKeys, \* the key each enclave draws first
    Budgets      \* bounds: how many events of each kind may happen

VARIABLES
    up,          \* "up", "down", or "starting": inside IngestController::new
    mode,        \* controller_state.mode
    key,         \* the ingress key in the enclave
    peers,       \* controller_state.peers, as a set of servers
    config,      \* the peer list of the configuration
    state_file,  \* what the state file holds
    call,        \* the activate call and the checkup thread of each server
    handlers,    \* key and peer list updates that a server is carrying out
    hung,        \* servers whose mutex a new_keys call will never release
    asked,       \* history: the peers found idle by the last activation
    budget       \* how many events of each kind may still happen

vars == <<up, mode, key, peers, config, state_file, call, handlers, hung,
          asked, budget>>

Kinds == {"activate", "crash", "rpc", "sync", "new_keys", "set_peers", "idle"}
Threads == {"activate", "checkup"}

ASSUME ConfigsListTheServer ==
    \A c \in Configs : c \in [Servers -> SUBSET Servers]
                       /\ \A s \in Servers : s \in c[s]
ASSUME KeysAreDrawn == InitialKeys \in [Servers -> Keys]
ASSUME BudgetsAreNatural == Budgets \subseteq [Kinds -> Nat]

-----------------------------------------------------------------------------

Modes == {"idle", "active"}
PCs == {"none", "status", "own", "confirm", "send_key", "set_key",
        "set_peers", "wait", "finish", "write"}

Status == [peer: Servers, key: Keys, peers: SUBSET Servers]

\* A call: the peers it has not asked yet, the answers it has not acted on,
\* the one it is acting on, and the key and the list it compares it with.
Call == [pc: PCs, todo: SUBSET Servers, summaries: SUBSET Status,
         summary: Status, our_key: Keys, our_peers: SUBSET Servers]

Caller == Servers \X Threads
Orphan == << >>

\* An update at a server.  The caller of a key or list update waits for it; a
\* sync_keys_from_remote, or an update whose caller is gone, has none.
Handler == [at: Servers, pc: {"fetch", "apply", "write", "reply"},
            key: Keys, remote: Servers, caller: Caller \cup {Orphan}]

StateFile == [mode: Modes, key: Keys, peers: SUBSET Servers]

TypeOK ==
    /\ up \in [Servers -> {"up", "down", "starting"}]
    /\ mode \in [Servers -> Modes]
    /\ key \in [Servers -> Keys]
    /\ peers \in [Servers -> SUBSET Servers]
    /\ config \in Configs
    /\ state_file \in [Servers -> StateFile]
    /\ call \in [Servers -> [Threads -> Call]]
    /\ handlers \subseteq Handler
    /\ hung \subseteq Servers
    /\ asked \in [Servers -> SUBSET Servers]
    /\ budget \in [Kinds -> Nat]

AnyKey == CHOOSE k \in Keys : TRUE
NoStatus == [peer |-> CHOOSE s \in Servers : TRUE, key |-> AnyKey, peers |-> {}]
NoCall == [pc |-> "none", todo |-> {}, summaries |-> {}, summary |-> NoStatus,
           our_key |-> AnyKey, our_peers |-> {}]

Init ==
    /\ up = [s \in Servers |-> "up"]
    /\ mode = [s \in Servers |-> "idle"]
    /\ key = InitialKeys
    /\ config \in Configs
    /\ peers = config
    /\ state_file = [s \in Servers |-> [mode |-> "idle", key |-> key[s],
                                        peers |-> peers[s]]]
    /\ call = [s \in Servers |-> [th \in Threads |-> NoCall]]
    /\ handlers = {}
    /\ hung = {}
    /\ asked = [s \in Servers |-> {}]
    /\ budget \in Budgets

Spend(kind) ==
    /\ budget[kind] > 0
    /\ budget' = [budget EXCEPT ![kind] = @ - 1]

\* The mutex of s is taken: by activate until the server is active, or for ever
\* by new_keys.  (IngestController::new takes it too, before anyone can call.)
Locked(s) ==
    \/ call[s]["activate"].pc \notin {"none", "write"}
    \/ s \in hung

Summary(s) == [mode |-> mode[s], key |-> key[s], peers |-> peers[s]]

\* A key that no enclave, state file or message has: what a random draw yields.
Fresh(k) ==
    /\ \A s \in Servers : key[s] # k /\ state_file[s].key # k
    /\ \A h \in handlers : h.key # k

-----------------------------------------------------------------------------
(* How a call goes on. *)

\* The call is done with a peer.  activate turns to the next peer to confirm;
\* checkup asks the next one, or ends its round.
Continue(c, th) ==
    IF th = "activate" THEN [c EXCEPT !.pc = "confirm", !.summary = NoStatus]
    ELSE IF c.todo = {} THEN NoCall
    ELSE [NoCall EXCEPT !.pc = "status", !.todo = c.todo]

\* An error ends activate.  In checkup it is logged, and the next peer is asked.
Failed(c, th) == IF th = "activate" THEN NoCall ELSE Continue(c, th)

\* confirm_backup after the key: the peer list, as the status gave it.
AfterKey_KeyOnly(c, th) == Continue(c, th)

AfterKey(c, th) ==
    IF c.summary.peers # c.our_peers THEN [c EXCEPT !.pc = "set_peers"]
    ELSE Continue(c, th)

\* confirm_backup on an idle peer, with update_if_wrong.
Confirm(c, th) ==
    IF c.summary.key # c.our_key THEN [c EXCEPT !.pc = "send_key"]
    ELSE AfterKey(c, th)

Goes(s, th, c) == call' = [call EXCEPT ![s][th] = c]

-----------------------------------------------------------------------------
(* activate, and the peer_checkup thread. *)

\* activate takes the mutex.  On an active server it returns at once.
ActivateBegin(s) ==
    /\ up[s] = "up" /\ ~Locked(s) /\ call[s]["activate"].pc = "none"
    /\ mode[s] = "idle"
    /\ Spend("activate")
    /\ Goes(s, "activate",
            [NoCall EXCEPT !.pc = "status", !.todo = peers[s] \ {s},
                           !.our_peers = peers[s]])
    /\ asked' = [asked EXCEPT ![s] = {}]
    /\ UNCHANGED <<up, mode, key, peers, config, state_file, handlers, hung>>

\* peer_checkup reads the mode and the peers under the mutex, and releases it.
CheckupBegin(s) ==
    /\ up[s] = "up" /\ ~Locked(s) /\ call[s]["checkup"].pc = "none"
    /\ mode[s] = "active"
    /\ peers[s] \ {s} # {}
    /\ Goes(s, "checkup", [NoCall EXCEPT !.pc = "status",
                                         !.todo = peers[s] \ {s}])
    /\ UNCHANGED <<up, mode, key, peers, config, state_file, handlers, hung,
                   asked, budget>>

\* get_status at a peer t, which takes the mutex of t to answer.
ActivateStatus_AnyMode(s, t) ==
    /\ call[s]["activate"].pc = "status"
    /\ t \in call[s]["activate"].todo
    /\ up[t] = "up" /\ ~Locked(t)
    /\ LET m == [peer |-> t, key |-> key[t], peers |-> peers[t]]
       IN  Goes(s, "activate",
                [call[s]["activate"] EXCEPT !.todo = @ \ {t},
                                            !.summaries = @ \cup {m}])
    /\ asked' = [asked EXCEPT ![s] = @ \cup {t}]
    /\ UNCHANGED <<up, mode, key, peers, config, state_file, handlers, hung,
                   budget>>

ActivateStatus(s, t) ==
    /\ call[s]["activate"].pc = "status"
    /\ t \in call[s]["activate"].todo
    /\ up[t] = "up" /\ ~Locked(t)
    /\ LET c == call[s]["activate"]
           m == [peer |-> t, key |-> key[t], peers |-> peers[t]]
       IN  IF mode[t] = "active"
           THEN Goes(s, "activate", NoCall) /\ UNCHANGED asked
           ELSE /\ Goes(s, "activate", [c EXCEPT !.todo = @ \ {t},
                                                !.summaries = @ \cup {m}])
                /\ asked' = [asked EXCEPT ![s] = @ \cup {t}]
    /\ UNCHANGED <<up, mode, key, peers, config, state_file, handlers, hung,
                   budget>>

\* All peers are idle: our_pubkey is read from the enclave.
ActivateOwnKey(s) ==
    /\ call[s]["activate"].pc = "status"
    /\ call[s]["activate"].todo = {}
    /\ Goes(s, "activate", [call[s]["activate"] EXCEPT !.pc = "confirm",
                                                      !.our_key = key[s]])
    /\ UNCHANGED <<up, mode, key, peers, config, state_file, handlers, hung,
                   asked, budget>>

\* The next peer of activate, or the end of the peer checks.
ActivateConfirm(s) ==
    /\ call[s]["activate"].pc = "confirm"
    /\ LET c == call[s]["activate"]
       IN  IF c.summaries = {} THEN Goes(s, "activate", [c EXCEPT !.pc = "finish"])
           ELSE \E m \in c.summaries :
                  Goes(s, "activate",
                       Confirm([c EXCEPT !.summaries = @ \ {m}, !.summary = m],
                               "activate"))
    /\ UNCHANGED <<up, mode, key, peers, config, state_file, handlers, hung,
                   asked, budget>>

\* The start block, the report, set_active; the mutex is released.  The
\* database may fail, or the key may be retired: an error.
ActivateFinish(s) ==
    /\ call[s]["activate"].pc = "finish"
    /\ \/ /\ mode' = [mode EXCEPT ![s] = "active"]
          /\ Goes(s, "activate", [NoCall EXCEPT !.pc = "write"])
       \/ Goes(s, "activate", NoCall) /\ UNCHANGED mode
    /\ UNCHANGED <<up, key, peers, config, state_file, handlers, hung, asked,
                   budget>>

ActivateWrite(s) ==
    /\ call[s]["activate"].pc = "write" /\ ~Locked(s)
    /\ state_file' = [state_file EXCEPT ![s] = Summary(s)]
    /\ Goes(s, "activate", NoCall)
    /\ UNCHANGED <<up, mode, key, peers, config, handlers, hung, asked, budget>>

\* get_status for peer_checkup: an active peer is an error.
CheckupStatus(s, t) ==
    /\ call[s]["checkup"].pc = "status"
    /\ t \in call[s]["checkup"].todo
    /\ up[t] = "up" /\ ~Locked(t)
    /\ LET c == [call[s]["checkup"] EXCEPT !.todo = @ \ {t}]
           m == [peer |-> t, key |-> key[t], peers |-> peers[t]]
       IN  IF mode[t] = "active" THEN Goes(s, "checkup", Failed(c, "checkup"))
           ELSE Goes(s, "checkup", [c EXCEPT !.pc = "own", !.summary = m])
    /\ UNCHANGED <<up, mode, key, peers, config, state_file, handlers, hung,
                   asked, budget>>

\* confirm_backup reads our key from the enclave and our peers under our mutex.
CheckupOwn(s) ==
    /\ call[s]["checkup"].pc = "own" /\ ~Locked(s)
    /\ Goes(s, "checkup",
            Confirm([call[s]["checkup"] EXCEPT !.our_key = key[s],
                                               !.our_peers = peers[s]],
                    "checkup"))
    /\ UNCHANGED <<up, mode, key, peers, config, state_file, handlers, hung,
                   asked, budget>>

-----------------------------------------------------------------------------
(* confirm_backup: the calls that update a peer, and their handlers. *)

\* PeerConnection::set_ingress_private_key reads the key to send from our own
\* enclave.  If it is no longer the key we compared, the call, or the whole
\* round of checkup, is over.
SendKey(s, th) ==
    /\ call[s][th].pc = "send_key"
    /\ IF key[s] # call[s][th].our_key THEN Goes(s, th, NoCall)
       ELSE Goes(s, th, [call[s][th] EXCEPT !.pc = "set_key"])
    /\ UNCHANGED <<up, mode, key, peers, config, state_file, handlers, hung,
                   asked, budget>>

\* set_ingress_private_key at the peer: idle, checked under the mutex.
SetKeyCheck(s, th) ==
    /\ call[s][th].pc = "set_key"
    /\ LET c == call[s][th]
           t == c.summary.peer
       IN  /\ up[t] = "up" /\ ~Locked(t)
           /\ IF mode[t] = "active"
              THEN Goes(s, th, Failed(c, th)) /\ UNCHANGED handlers
              ELSE /\ Goes(s, th, [c EXCEPT !.pc = "wait"])
                   /\ handlers' = handlers \cup
                        {[at |-> t, pc |-> "apply", key |-> c.our_key,
                          remote |-> s, caller |-> <<s, th>>]}
    /\ UNCHANGED <<up, mode, key, peers, config, state_file, hung, asked, budget>>

\* The enclave takes the key, without the mutex.
SetKeyApply(h) ==
    /\ h \in handlers /\ h.pc = "apply"
    /\ key' = [key EXCEPT ![h.at] = h.key]
    /\ handlers' = (handlers \ {h}) \cup {[h EXCEPT !.pc = "write"]}
    /\ UNCHANGED <<up, mode, peers, config, state_file, call, hung, asked, budget>>

\* The answer to a caller, if there is one: does the peer now have what we
\* sent?
Answer(h, ok) ==
    IF h.caller = Orphan THEN UNCHANGED call
    ELSE LET s == h.caller[1]
             th == h.caller[2]
             c == call[s][th]
         IN  Goes(s, th, IF ~ok THEN Failed(c, th)
                         ELSE IF h.pc = "write" THEN AfterKey(c, th)
                         ELSE Continue(c, th))

\* The state file is written, under the mutex, and the summary returned.
SetKeyWrite_NotSaved(h) ==
    /\ h \in handlers /\ h.pc = "write"
    /\ ~Locked(h.at)
    /\ handlers' = handlers \ {h}
    /\ Answer(h, key[h.at] = h.key)
    /\ UNCHANGED <<up, mode, key, peers, config, state_file, hung, asked, budget>>

SetKeyWrite(h) ==
    /\ h \in handlers /\ h.pc = "write"
    /\ ~Locked(h.at)
    /\ state_file' = [state_file EXCEPT ![h.at] = Summary(h.at)]
    /\ handlers' = handlers \ {h}
    /\ Answer(h, key[h.at] = h.key)
    /\ UNCHANGED <<up, mode, key, peers, config, hung, asked, budget>>

\* set_peers at the peer, which refuses a list that it is not on.  The state
\* file is not written.
SetPeersCall(s, th) ==
    /\ call[s][th].pc = "set_peers"
    /\ LET c == call[s][th]
           t == c.summary.peer
       IN  /\ up[t] = "up" /\ ~Locked(t)
           /\ IF t \notin c.our_peers
              THEN Goes(s, th, Failed(c, th)) /\ UNCHANGED <<peers, handlers>>
              ELSE /\ peers' = [peers EXCEPT ![t] = c.our_peers]
                   /\ Goes(s, th, [c EXCEPT !.pc = "wait"])
                   /\ handlers' = handlers \cup
                        {[at |-> t, pc |-> "reply", key |-> c.our_key,
                          remote |-> s, caller |-> <<s, th>>]}
    /\ UNCHANGED <<up, mode, key, config, state_file, hung, asked, budget>>

\* The summary that answers set_peers takes the mutex once more.
SetPeersReply(h) ==
    /\ h \in handlers /\ h.pc = "reply"
    /\ ~Locked(h.at)
    /\ handlers' = handlers \ {h}
    /\ Answer(h, h.caller # Orphan
                  => peers[h.at] = call[h.caller[1]][h.caller[2]].our_peers)
    /\ UNCHANGED <<up, mode, key, peers, config, state_file, hung, asked, budget>>

\* A call fails: the peer is not listening, or went down with the handler, or
\* the connection breaks, and then the handler goes on without its caller.
RpcFails_NotWhileWaiting(s, th) ==
    /\ LET c == call[s][th]
       IN  \/ /\ c.pc = "status"
             /\ \E t \in c.todo :
                  /\ up[t] # "up"
                  /\ Goes(s, th, Failed([c EXCEPT !.todo = @ \ {t}], th))
          \/ /\ c.pc \in {"send_key", "set_key", "set_peers"}
             /\ up[c.summary.peer] # "up"
             /\ Goes(s, th, Failed(c, th))
    /\ UNCHANGED <<up, mode, key, peers, config, state_file, handlers, hung,
                   asked, budget>>

RpcFails(s, th) ==
    /\ LET c == call[s][th]
           mine(h) == h.caller = <<s, th>>
       IN  \/ /\ c.pc = "status"
             /\ \E t \in c.todo :
                  /\ \/ up[t] # "up" /\ UNCHANGED budget
                     \/ Spend("rpc")
                  /\ Goes(s, th, Failed([c EXCEPT !.todo = @ \ {t}], th))
             /\ UNCHANGED handlers
          \/ /\ c.pc \in {"send_key", "set_key", "set_peers", "wait"}
             /\ \/ up[c.summary.peer] # "up" /\ UNCHANGED budget
                \/ /\ c.pc = "wait" /\ \A h \in handlers : ~mine(h)
                   /\ UNCHANGED budget
                \/ Spend("rpc")
             /\ Goes(s, th, Failed(c, th))
             /\ handlers' = {IF mine(h) THEN [h EXCEPT !.caller = Orphan]
                                        ELSE h : h \in handlers}
    /\ UNCHANGED <<up, mode, key, peers, config, state_file, hung, asked>>

-----------------------------------------------------------------------------
(* The operators' other calls. *)

\* sync_keys_from_remote: the idle check, the key of the remote, which it gives
\* without its mutex, and from there on as in set_ingress_private_key.
SyncKeysCheck(s, t) ==
    /\ s # t /\ up[s] = "up" /\ ~Locked(s) /\ mode[s] = "idle"
    /\ Spend("sync")
    /\ handlers' = handlers \cup {[at |-> s, pc |-> "fetch", key |-> AnyKey,
                                   remote |-> t, caller |-> Orphan]}
    /\ UNCHANGED <<up, mode, key, peers, config, state_file, call, hung, asked>>

SyncKeysFetch_NoAnswer(h) ==
    /\ h \in handlers /\ h.pc = "fetch"
    /\ handlers' = (handlers \ {h}) \cup
         {[h EXCEPT !.pc = "apply",
                    !.key = IF up[h.remote] = "up" THEN key[h.remote] ELSE Orphan]}
    /\ UNCHANGED <<up, mode, key, peers, config, state_file, call, hung, asked,
                   budget>>

SyncKeysFetch(h) ==
    /\ h \in handlers /\ h.pc = "fetch"
    /\ handlers' = (handlers \ {h}) \cup
         (IF up[h.remote] = "up"
          THEN {[h EXCEPT !.pc = "apply", !.key = key[h.remote]]} ELSE {})
    /\ UNCHANGED <<up, mode, key, peers, config, state_file, call, hung, asked,
                   budget>>

\* new_keys: a fresh key, the state file, and then get_ingest_summary waits
\* for the mutex that the call itself still holds.
NewKeys(s) ==
    /\ up[s] = "up" /\ ~Locked(s) /\ mode[s] = "idle"
    /\ Spend("new_keys")
    /\ \E k \in Keys : Fresh(k) /\ key' = [key EXCEPT ![s] = k]
    /\ state_file' = [state_file EXCEPT ![s] = [Summary(s) EXCEPT !.key = key'[s]]]
    /\ hung' = hung \cup {s}
    /\ UNCHANGED <<up, mode, peers, config, call, handlers, asked>>

\* set_peers by the operator: a list without the server itself is an error.
SetPeers(s, list) ==
    /\ up[s] = "up" /\ ~Locked(s)
    /\ s \in list
    /\ Spend("set_peers")
    /\ peers' = [peers EXCEPT ![s] = list]
    /\ UNCHANGED <<up, mode, key, config, state_file, call, handlers, hung, asked>>

\* The worker: it writes the state file after a block, or goes idle and writes
\* it before it releases the mutex.
WorkerWrite(s) ==
    /\ up[s] = "up" /\ ~Locked(s)
    /\ \/ mode[s] = "active" /\ UNCHANGED <<mode, budget>>
       \/ /\ mode[s] = "active" /\ Spend("idle")
          /\ mode' = [mode EXCEPT ![s] = "idle"]
    /\ state_file' = [state_file EXCEPT ![s] = [Summary(s) EXCEPT !.mode = mode'[s]]]
    /\ UNCHANGED <<up, key, peers, config, call, handlers, hung, asked>>

-----------------------------------------------------------------------------
(* Crashes and restarts. *)

Crash(s) ==
    /\ up[s] = "up"
    /\ Spend("crash")
    /\ up' = [up EXCEPT ![s] = "down"]
    /\ mode' = [mode EXCEPT ![s] = "idle"]
    /\ call' = [call EXCEPT ![s] = [th \in Threads |-> NoCall]]
    /\ handlers' = {IF h.caller # Orphan /\ h.caller[1] = s
                    THEN [h EXCEPT !.caller = Orphan] ELSE h :
                      h \in {g \in handlers : g.at # s}}
    /\ hung' = hung \ {s}
    /\ UNCHANGED <<key, peers, config, state_file, asked>>

\* IngestController::new with an idle state file.
RestartIdle(s) ==
    /\ up[s] = "down" /\ state_file[s].mode = "idle"
    /\ up' = [up EXCEPT ![s] = "up"]
    /\ key' = [key EXCEPT ![s] = state_file[s].key]
    /\ peers' = [peers EXCEPT ![s] = state_file[s].peers]
    /\ UNCHANGED <<mode, config, state_file, call, handlers, hung, asked, budget>>

\* IngestController::new without a state file, which the operator removed.
StartFresh(s) ==
    /\ up[s] = "down"
    /\ up' = [up EXCEPT ![s] = "up"]
    /\ \E k \in Keys : Fresh(k) /\ key' = [key EXCEPT ![s] = k]
    /\ peers' = [peers EXCEPT ![s] = config[s]]
    /\ state_file' = [state_file EXCEPT ![s] =
                        [mode |-> "idle", key |-> key'[s], peers |-> config[s]]]
    /\ UNCHANGED <<mode, config, call, handlers, hung, asked, budget>>

\* IngestController::new with an active state file: the peers it lists are
\* asked for their status before the server listens.
RestoreBegin(s) ==
    /\ up[s] = "down" /\ state_file[s].mode = "active"
    /\ up' = [up EXCEPT ![s] = "starting"]
    /\ key' = [key EXCEPT ![s] = state_file[s].key]
    /\ peers' = [peers EXCEPT ![s] = state_file[s].peers]
    /\ asked' = [asked EXCEPT ![s] = {}]
    /\ UNCHANGED <<mode, config, state_file, call, handlers, hung, budget>>

\* confirm_backup without update_if_wrong: a peer that is active, or does not
\* answer, ends the process; a peer with another key or list is let pass.
RestoreStatus(s, t) ==
    /\ up[s] = "starting"
    /\ t \in peers[s] \ (asked[s] \cup {s})
    /\ \/ /\ up[t] = "up" /\ ~Locked(t) /\ mode[t] = "idle"
          /\ asked' = [asked EXCEPT ![s] = @ \cup {t}]
          /\ UNCHANGED <<up, budget>>
       \/ /\ \/ up[t] # "up" /\ UNCHANGED budget
             \/ up[t] = "up" /\ ~Locked(t) /\ mode[t] = "active" /\ UNCHANGED budget
             \/ Spend("rpc")
          /\ up' = [up EXCEPT ![s] = "down"]
          /\ UNCHANGED asked
    /\ UNCHANGED <<mode, key, peers, config, state_file, call, handlers, hung>>

RestoreFinish(s) ==
    /\ up[s] = "starting"
    /\ peers[s] \subseteq asked[s] \cup {s}
    /\ up' = [up EXCEPT ![s] = "up"]
    /\ mode' = [mode EXCEPT ![s] = "active"]
    /\ UNCHANGED <<key, peers, config, state_file, call, handlers, hung, asked,
                   budget>>

-----------------------------------------------------------------------------

ActivateStep(s) ==
    \/ ActivateOwnKey(s) \/ ActivateConfirm(s) \/ ActivateFinish(s)
    \/ ActivateWrite(s) \/ \E t \in Servers : ActivateStatus(s, t)

CheckupStep(s) ==
    CheckupBegin(s) \/ CheckupOwn(s) \/ \E t \in Servers : CheckupStatus(s, t)

CallStep(s, th) ==
    \/ th = "activate" /\ ActivateStep(s)
    \/ th = "checkup" /\ CheckupStep(s)
    \/ SendKey(s, th) \/ SetKeyCheck(s, th) \/ SetPeersCall(s, th)
    \/ RpcFails(s, th)

HandlerStep(h) ==
    SetKeyApply(h) \/ SetKeyWrite(h) \/ SetPeersReply(h) \/ SyncKeysFetch(h)

Restart(s) ==
    \/ RestartIdle(s) \/ StartFresh(s) \/ RestoreBegin(s) \/ RestoreFinish(s)
    \/ \E t \in Servers : RestoreStatus(s, t)

Next ==
    \/ \E s \in Servers :
         \/ ActivateBegin(s) \/ \E th \in Threads : CallStep(s, th)
         \/ NewKeys(s) \/ WorkerWrite(s) \/ Crash(s) \/ Restart(s)
         \/ \E t \in Servers : SyncKeysCheck(s, t)
         \/ \E c \in Configs : SetPeers(s, c[s])
    \/ \E h \in handlers : HandlerStep(h)

Spec == Init /\ [][Next]_vars

\* The threads run: the activate call, the checkup thread, which comes back
\* every peer_checkup_period, and the handlers.  Operators need not act, and a
\* server that is down need not come back.
FairSpec ==
    /\ Spec
    /\ \A s \in Servers :
         /\ \A th \in Threads : WF_vars(CallStep(s, th))
         /\ WF_vars(\E h \in handlers : h.at = s /\ HandlerStep(h))

-----------------------------------------------------------------------------

\* Two servers that each found the other idle before they became active are
\* never both active: activate and a restart ask under their own mutex, so
\* that of two that overlap one waits for, or is refused by, the other.
AtMostOneActive ==
    \A s, t \in Servers :
        s # t /\ mode[s] = "active" /\ mode[t] = "active"
        => ~(t \in asked[s] /\ s \in asked[t])

\* The key in the enclave is the key in the state file, except between the two
\* steps of a key transfer: a crash at any other moment loses no key, although
\* transfers, activations and the worker write the file in any order.
KeyInStateFile ==
    \A s \in Servers : up[s] = "up" =>
        \/ state_file[s].key = key[s]
        \/ \E h \in handlers : h.at = s /\ h.pc = "write"

\* The peers whose mutex the activate call of s waits for.
Needs(s) ==
    LET c == call[s]["activate"]
    IN  IF c.pc = "status" THEN c.todo
        ELSE IF c.pc \in {"set_key", "set_peers", "wait"} THEN {c.summary.peer}
        ELSE {}

\* Activations that wait for one another.
CircularWait ==
    \E S \in SUBSET Servers \ {{}} : \A s \in S : Needs(s) \cap S # {}

\* activate returns, unless activations wait for one another in a circle or a
\* new_keys call has hung: no other order of calls, failures and crashes
\* leaves it waiting.
ActivationEnds ==
    \A s \in Servers :
        call[s]["activate"].pc # "none"
        ~> (call[s]["activate"].pc = "none" \/ CircularWait \/ hung # {})

\* When s stays the only active server, a peer that stays up ends with its key
\* and its peer list, whatever it missed: a restart that let a wrong peer
\* pass, failed calls, keys synced or set meanwhile.
BackupsRestored ==
    \A s, t \in Servers :
        s # t =>
        (<>[](/\ \A u \in Servers : mode[u] = "active" <=> u = s
              /\ up[t] = "up" /\ t \in peers[s]
              /\ ~CircularWait /\ hung = {})
         => <>[](key[t] = key[s] /\ peers[t] = peers[s]))

=============================================================================
