------------------------- MODULE IngestPeersProofs -------------------------
(***************************************************************************)
(* Proofs about IngestPeers, for any servers, keys and configurations: the *)
(* state is well typed, two servers that asked one another are never both  *)
(* active, and no crash loses a key.                                       *)
(***************************************************************************)
EXTENDS IngestPeers, TLAPS

-----------------------------------------------------------------------------
(* Calls. *)

LEMMA NoCallType ==
    ASSUME NEW s \in Servers, TypeOK
    PROVE  /\ AnyKey \in Keys /\ NoStatus \in Status
           /\ NoCall \in Call /\ NoCall.pc = "none"
<1>1. key[s] \in Keys
  BY DEF TypeOK
<1>2. AnyKey \in Keys
  BY <1>1 DEF AnyKey
<1>3. (CHOOSE t \in Servers : TRUE) \in Servers
  OBVIOUS
<1>4. NoStatus \in Status
  BY <1>2, <1>3 DEF NoStatus, Status
<1>5. NoCall \in Call
  BY <1>2, <1>4 DEF NoCall, Call, PCs
<1>6. NoCall.pc = "none"
  BY DEF NoCall
<1> QED
  BY <1>2, <1>4, <1>5, <1>6

LEMMA ContinueType ==
    ASSUME NEW s \in Servers, TypeOK, NEW c \in Call, NEW th \in Threads
    PROVE  /\ Continue(c, th) \in Call
           /\ Continue(c, th).pc \in {"confirm", "status", "none"}
<1>1. /\ NoCall \in Call /\ NoCall.pc = "none" /\ NoStatus \in Status
  BY NoCallType
<1>2. CASE th = "activate"
  BY <1>1, <1>2, ZenonT(30) DEF Continue, Call, PCs
<1>3. CASE th # "activate" /\ c.todo = {}
  BY <1>1, <1>3 DEF Continue
<1>4. CASE th # "activate" /\ c.todo # {}
  <2>1. c.todo \in SUBSET Servers
    BY DEF Call
  <2> QED
    BY <1>1, <1>4, <2>1, ZenonT(30) DEF Continue, Call, PCs
<1> QED
  BY <1>2, <1>3, <1>4

LEMMA FailedType ==
    ASSUME NEW s \in Servers, TypeOK, NEW c \in Call, NEW th \in Threads
    PROVE  /\ Failed(c, th) \in Call
           /\ Failed(c, th).pc # "wait"
           /\ th = "activate" => Failed(c, th).pc = "none"
BY NoCallType, ContinueType DEF Failed

LEMMA AfterKeyType ==
    ASSUME NEW s \in Servers, TypeOK, NEW c \in Call, NEW th \in Threads
    PROVE  AfterKey(c, th) \in Call /\ AfterKey(c, th).pc # "wait"
<1>1. [c EXCEPT !.pc = "set_peers"] \in Call
  BY DEF Call, PCs
<1>2. [c EXCEPT !.pc = "set_peers"].pc = "set_peers"
  BY DEF Call
<1> QED
  BY <1>1, <1>2, ContinueType DEF AfterKey

LEMMA ConfirmType ==
    ASSUME NEW s \in Servers, TypeOK, NEW c \in Call, NEW th \in Threads
    PROVE  Confirm(c, th) \in Call /\ Confirm(c, th).pc # "wait"
<1>1. [c EXCEPT !.pc = "send_key"] \in Call
  BY DEF Call, PCs
<1>2. [c EXCEPT !.pc = "send_key"].pc = "send_key"
  BY DEF Call
<1> QED
  BY <1>1, <1>2, AfterKeyType DEF Confirm

\* One call goes on, the others stay.
LEMMA GoesOn ==
    ASSUME TypeOK, NEW s \in Servers, NEW th \in Threads, NEW c \in Call,
           Goes(s, th, c)
    PROVE  /\ call' \in [Servers -> [Threads -> Call]]
           /\ call'[s][th] = c
           /\ \A u \in Servers, v \in Threads :
                <<u, v>> # <<s, th>> => call'[u][v] = call[u][v]
BY DEF TypeOK, Goes

LEMMA CallTyped ==
    ASSUME TypeOK, NEW s \in Servers, NEW th \in Threads
    PROVE  call[s][th] \in Call
BY DEF TypeOK

LEMMA CallFields ==
    ASSUME NEW c \in Call
    PROVE  /\ c.todo \in SUBSET Servers /\ c.summaries \in SUBSET Status
           /\ c.summary \in Status /\ c.summary.peer \in Servers
           /\ c.our_key \in Keys /\ c.our_peers \in SUBSET Servers
BY DEF Call, Status

-----------------------------------------------------------------------------
(* Type correctness. *)

LEMMA SpendType ==
    ASSUME TypeOK, NEW kind \in Kinds, Spend(kind)
    PROVE  budget' \in [Kinds -> Nat]
BY DEF TypeOK, Spend

LEMMA SummaryType ==
    ASSUME TypeOK, NEW s \in Servers
    PROVE  Summary(s) \in StateFile
BY DEF TypeOK, Summary, StateFile

LEMMA ActivateType ==
    ASSUME TypeOK, NEW s \in Servers,
           \/ ActivateBegin(s) \/ ActivateStep(s) \/ CheckupStep(s)
    PROVE  TypeOK'
<1> /\ NoCall \in Call /\ NoStatus \in Status /\ NoCall.pc = "none"
  BY NoCallType
<1> DEFINE a == call[s]["activate"]
           k == call[s]["checkup"]
<1> "activate" \in Threads /\ "checkup" \in Threads
  BY DEF Threads
<1>0. /\ a \in Call /\ k \in Call
      /\ a.todo \in SUBSET Servers /\ a.summaries \in SUBSET Status
      /\ k.todo \in SUBSET Servers
  BY CallTyped, CallFields
<1>s. \A t \in Servers : [peer |-> t, key |-> key[t], peers |-> peers[t]] \in Status
  BY DEF TypeOK, Status
<1>1. CASE ActivateBegin(s)
  <2>1. peers[s] \in SUBSET Servers
    BY DEF TypeOK
  <2>2. [NoCall EXCEPT !.pc = "status", !.todo = peers[s] \ {s},
                       !.our_peers = peers[s]] \in Call
    BY <2>1, ZenonT(30) DEF Call, PCs
  <2>3. call' \in [Servers -> [Threads -> Call]]
    BY <1>1, <2>2, GoesOn DEF ActivateBegin
  <2>4. budget' \in [Kinds -> Nat]
    BY <1>1, SpendType DEF ActivateBegin, Kinds
  <2> QED
    BY <1>1, <2>3, <2>4, ZenonT(30) DEF TypeOK, ActivateBegin
<1>2. ASSUME NEW t \in Servers, ActivateStatus(s, t) PROVE TypeOK'
  <2> DEFINE m == [peer |-> t, key |-> key[t], peers |-> peers[t]]
  <2>1. m \in Status
    BY <1>s
  <2> HIDE DEF m
  <2>2. [a EXCEPT !.todo = @ \ {t}, !.summaries = @ \cup {m}] \in Call
    BY <1>0, <2>1, ZenonT(30) DEF Call
  <2>3. call' \in [Servers -> [Threads -> Call]]
    BY <1>2, <2>2, GoesOn DEF ActivateStatus, m
  <2>4. asked' \in [Servers -> SUBSET Servers]
    BY <1>2 DEF ActivateStatus, TypeOK
  <2> QED
    BY <1>2, <2>3, <2>4 DEF TypeOK, ActivateStatus
<1>3. CASE ActivateOwnKey(s)
  <2>1. key[s] \in Keys
    BY DEF TypeOK
  <2>2. [a EXCEPT !.pc = "confirm", !.our_key = key[s]] \in Call
    BY <1>0, <2>1, ZenonT(30) DEF Call, PCs
  <2>3. call' \in [Servers -> [Threads -> Call]]
    BY <1>3, <2>2, GoesOn DEF ActivateOwnKey
  <2> QED
    BY <1>3, <2>3 DEF TypeOK, ActivateOwnKey
<1>4. CASE ActivateConfirm(s)
  <2>1. [a EXCEPT !.pc = "finish"] \in Call
    BY <1>0 DEF Call, PCs
  <2>2. ASSUME NEW m \in a.summaries
        PROVE  Confirm([a EXCEPT !.summaries = @ \ {m}, !.summary = m], "activate")
                 \in Call
    <3>1. [a EXCEPT !.summaries = @ \ {m}, !.summary = m] \in Call
      BY <1>0, ZenonT(30) DEF Call
    <3> QED
      BY <3>1, ConfirmType
  <2>3. call' \in [Servers -> [Threads -> Call]]
    BY <1>4, <2>1, <2>2, GoesOn, ZenonT(30) DEF ActivateConfirm
  <2> QED
    BY <1>4, <2>3, ZenonT(30) DEF TypeOK, ActivateConfirm
<1>5. CASE ActivateFinish(s)
  <2>1. [NoCall EXCEPT !.pc = "write"] \in Call
    BY DEF Call, PCs
  <2>2. call' \in [Servers -> [Threads -> Call]]
    BY <1>5, <2>1, GoesOn DEF ActivateFinish
  <2>3. mode' \in [Servers -> Modes]
    BY <1>5 DEF ActivateFinish, TypeOK, Modes
  <2> QED
    BY <1>5, <2>2, <2>3 DEF TypeOK, ActivateFinish
<1>6. CASE ActivateWrite(s)
  <2>1. call' \in [Servers -> [Threads -> Call]]
    BY <1>6, GoesOn DEF ActivateWrite
  <2>2. state_file' \in [Servers -> StateFile]
    BY <1>6, SummaryType DEF ActivateWrite, TypeOK
  <2> QED
    BY <1>6, <2>1, <2>2 DEF TypeOK, ActivateWrite
<1>7. CASE CheckupBegin(s)
  <2>1. peers[s] \in SUBSET Servers
    BY DEF TypeOK
  <2>2. [NoCall EXCEPT !.pc = "status", !.todo = peers[s] \ {s}] \in Call
    BY <2>1, ZenonT(30) DEF Call, PCs
  <2>3. call' \in [Servers -> [Threads -> Call]]
    BY <1>7, <2>2, GoesOn DEF CheckupBegin
  <2> QED
    BY <1>7, <2>3 DEF TypeOK, CheckupBegin
<1>8. CASE CheckupOwn(s)
  <2>1. key[s] \in Keys /\ peers[s] \in SUBSET Servers
    BY DEF TypeOK
  <2>2. [k EXCEPT !.our_key = key[s], !.our_peers = peers[s]] \in Call
    BY <1>0, <2>1, ZenonT(30) DEF Call
  <2>3. call' \in [Servers -> [Threads -> Call]]
    BY <1>8, <2>2, GoesOn, ConfirmType DEF CheckupOwn
  <2> QED
    BY <1>8, <2>3 DEF TypeOK, CheckupOwn
<1>9. ASSUME NEW t \in Servers, CheckupStatus(s, t) PROVE TypeOK'
  <2> DEFINE c == [k EXCEPT !.todo = @ \ {t}]
             m == [peer |-> t, key |-> key[t], peers |-> peers[t]]
  <2>1. c \in Call
    BY <1>0 DEF Call
  <2>2. m \in Status
    BY <1>s
  <2> HIDE DEF c, m
  <2>3. [c EXCEPT !.pc = "own", !.summary = m] \in Call
    BY <2>1, <2>2, ZenonT(30) DEF Call, PCs
  <2>4. Failed(c, "checkup") \in Call
    BY <2>1, FailedType
  <2>5. call' \in [Servers -> [Threads -> Call]]
    BY <1>9, <2>3, <2>4, GoesOn DEF CheckupStatus, c, m
  <2> QED
    BY <1>9, <2>5 DEF TypeOK, CheckupStatus
<1> QED
  BY <1>1, <1>2, <1>3, <1>4, <1>5, <1>6, <1>7, <1>8, <1>9
  DEF ActivateStep, CheckupStep

LEMMA UpdateType ==
    ASSUME TypeOK, NEW s \in Servers, NEW th \in Threads,
           \/ SendKey(s, th) \/ SetKeyCheck(s, th) \/ SetPeersCall(s, th)
           \/ RpcFails(s, th)
    PROVE  TypeOK'
<1> DEFINE c == call[s][th]
           t == c.summary.peer
<1>0. /\ c \in Call /\ t \in Servers /\ c.our_key \in Keys
      /\ c.our_peers \in SUBSET Servers
  BY CallTyped, CallFields
<1>f. Failed(c, th) \in Call /\ NoCall \in Call
  BY <1>0, FailedType, NoCallType
<1>p. \A pc \in PCs : [c EXCEPT !.pc = pc] \in Call
  BY <1>0 DEF Call
<1>h. <<s, th>> \in Caller \cup {Orphan}
  BY DEF Caller
<1>1. CASE SendKey(s, th)
  <2>1. call' \in [Servers -> [Threads -> Call]]
    BY <1>1, <1>f, <1>p, GoesOn DEF SendKey, PCs
  <2> QED
    BY <1>1, <2>1 DEF TypeOK, SendKey
<1>2. CASE SetKeyCheck(s, th)
  <2>1. call' \in [Servers -> [Threads -> Call]]
    BY <1>2, <1>f, <1>p, GoesOn DEF SetKeyCheck, PCs
  <2>2. [at |-> t, pc |-> "apply", key |-> c.our_key, remote |-> s,
         caller |-> <<s, th>>] \in Handler
    BY <1>0, <1>h DEF Handler
  <2>3. handlers' \subseteq Handler
    BY <1>2, <2>2, ZenonT(30) DEF SetKeyCheck, TypeOK
  <2> QED
    BY <1>2, <2>1, <2>3 DEF TypeOK, SetKeyCheck
<1>3. CASE SetPeersCall(s, th)
  <2>1. call' \in [Servers -> [Threads -> Call]]
    BY <1>3, <1>f, <1>p, GoesOn DEF SetPeersCall, PCs
  <2>2. [at |-> t, pc |-> "reply", key |-> c.our_key, remote |-> s,
         caller |-> <<s, th>>] \in Handler
    BY <1>0, <1>h DEF Handler
  <2>3. handlers' \subseteq Handler
    BY <1>3, <2>2, ZenonT(30) DEF SetPeersCall, TypeOK
  <2>4. peers' \in [Servers -> SUBSET Servers]
    BY <1>3, <1>0 DEF SetPeersCall, TypeOK
  <2> QED
    BY <1>3, <2>1, <2>3, <2>4 DEF TypeOK, SetPeersCall
<1>4. CASE RpcFails(s, th)
  <2>1. \A u \in Servers : Failed([c EXCEPT !.todo = @ \ {u}], th) \in Call
    <3>1. \A u \in Servers : [c EXCEPT !.todo = @ \ {u}] \in Call
      BY <1>0 DEF Call
    <3> QED
      BY <3>1, FailedType
  <2>2. \A u \in c.todo : u \in Servers
    BY <1>0, CallFields
  <2>3. \E d \in Call : Goes(s, th, d)
    <3>1. \/ \E u \in c.todo : Goes(s, th, Failed([c EXCEPT !.todo = @ \ {u}], th))
          \/ Goes(s, th, Failed(c, th))
      BY <1>4, ZenonT(30) DEF RpcFails
    <3>2. CASE Goes(s, th, Failed(c, th))
      BY <1>f, <3>2
    <3>3. ASSUME NEW u \in c.todo, Goes(s, th, Failed([c EXCEPT !.todo = @ \ {u}], th))
          PROVE  \E d \in Call : Goes(s, th, d)
      BY <2>1, <2>2, <3>3, ZenonT(30)
    <3> QED
      BY <3>1, <3>2, <3>3, ZenonT(30)
  <2>4. call' \in [Servers -> [Threads -> Call]]
    BY <2>3, GoesOn
  <2>5. budget' \in [Kinds -> Nat]
    BY <1>4, SpendType, ZenonT(30) DEF RpcFails, Kinds, TypeOK
  <2>6. \A h \in Handler : [h EXCEPT !.caller = Orphan] \in Handler
    BY DEF Handler
  <2>7. handlers' \subseteq Handler
    <3>1. CASE UNCHANGED handlers
      BY <3>1 DEF TypeOK
    <3>2. CASE handlers' = {IF h.caller = <<s, th>> THEN [h EXCEPT !.caller = Orphan]
                            ELSE h : h \in handlers}
      BY <2>6, <3>2, SMTT(30) DEF TypeOK
    <3> QED
      BY <1>4, <3>1, <3>2, ZenonT(30) DEF RpcFails
  <2> QED
    BY <1>4, <2>4, <2>5, <2>7 DEF TypeOK, RpcFails
<1> QED
  BY <1>1, <1>2, <1>3, <1>4

LEMMA AnswerGoesOn ==
    ASSUME TypeOK, NEW h \in handlers, NEW ok \in BOOLEAN, Answer(h, ok),
           h.caller # Orphan
    PROVE  /\ h.caller[1] \in Servers /\ h.caller[2] \in Threads
           /\ h.caller = <<h.caller[1], h.caller[2]>>
           /\ \E d \in Call : Goes(h.caller[1], h.caller[2], d) /\ d.pc # "wait"
<1>1. h.caller \in Caller
  BY DEF TypeOK, Handler
<1>2. /\ h.caller[1] \in Servers /\ h.caller[2] \in Threads
      /\ h.caller = <<h.caller[1], h.caller[2]>>
  BY <1>1 DEF Caller
<1> DEFINE s == h.caller[1]
           th == h.caller[2]
           c == call[s][th]
<1>3. c \in Call
  BY <1>2, CallTyped
<1>4. /\ Failed(c, th) \in Call /\ Failed(c, th).pc # "wait"
      /\ AfterKey(c, th) \in Call /\ AfterKey(c, th).pc # "wait"
      /\ Continue(c, th) \in Call /\ Continue(c, th).pc # "wait"
  BY <1>2, <1>3, FailedType, AfterKeyType, ContinueType, ZenonT(30)
<1>5. Goes(s, th, IF ~ok THEN Failed(c, th)
                  ELSE IF h.pc = "write" THEN AfterKey(c, th)
                  ELSE Continue(c, th))
  BY DEF Answer
<1> QED
  BY <1>2, <1>4, <1>5

LEMMA AnswerType ==
    ASSUME TypeOK, NEW h \in handlers, NEW ok \in BOOLEAN, Answer(h, ok)
    PROVE  call' \in [Servers -> [Threads -> Call]]
<1>1. CASE h.caller = Orphan
  BY <1>1 DEF Answer, TypeOK
<1>2. CASE h.caller # Orphan
  BY <1>2, AnswerGoesOn, GoesOn
<1> QED
  BY <1>1, <1>2

LEMMA HandlerType ==
    ASSUME TypeOK, NEW h \in handlers, HandlerStep(h)
    PROVE  TypeOK'
<1>0. /\ h \in Handler /\ h.at \in Servers /\ h.key \in Keys
      /\ h.remote \in Servers
  BY DEF TypeOK, Handler
<1>p. [h EXCEPT !.pc = "write"] \in Handler
  BY <1>0 DEF Handler
<1>1. CASE SetKeyApply(h)
  <2>1. key' \in [Servers -> Keys]
    BY <1>0, <1>1 DEF TypeOK, SetKeyApply
  <2>2. handlers' \subseteq Handler
    BY <1>1, <1>p, ZenonT(30) DEF TypeOK, SetKeyApply
  <2> QED
    BY <1>1, <2>1, <2>2 DEF TypeOK, SetKeyApply
<1>2. CASE SetKeyWrite(h)
  <2>1. call' \in [Servers -> [Threads -> Call]]
    BY <1>2, AnswerType, ZenonT(30) DEF SetKeyWrite
  <2>2. state_file' \in [Servers -> StateFile]
    BY <1>0, <1>2, SummaryType DEF TypeOK, SetKeyWrite
  <2>3. handlers' \subseteq Handler
    BY <1>2 DEF TypeOK, SetKeyWrite
  <2> QED
    BY <1>2, <2>1, <2>2, <2>3 DEF TypeOK, SetKeyWrite
<1>3. CASE SetPeersReply(h)
  <2>1. call' \in [Servers -> [Threads -> Call]]
    BY <1>3, AnswerType, ZenonT(30) DEF SetPeersReply
  <2>2. handlers' \subseteq Handler
    BY <1>3 DEF TypeOK, SetPeersReply
  <2> QED
    BY <1>3, <2>1, <2>2 DEF TypeOK, SetPeersReply
<1>4. CASE SyncKeysFetch(h)
  <2>1. key[h.remote] \in Keys
    BY <1>0 DEF TypeOK
  <2>2. [h EXCEPT !.pc = "apply", !.key = key[h.remote]] \in Handler
    BY <1>0, <2>1, ZenonT(30) DEF Handler
  <2>3. handlers' \subseteq Handler
    BY <1>4, <2>2 DEF TypeOK, SyncKeysFetch
  <2> QED
    BY <1>4, <2>3 DEF TypeOK, SyncKeysFetch
<1> QED
  BY <1>1, <1>2, <1>3, <1>4 DEF HandlerStep

LEMMA OperatorType ==
    ASSUME TypeOK, NEW s \in Servers,
           \/ NewKeys(s) \/ WorkerWrite(s)
           \/ \E t \in Servers : SyncKeysCheck(s, t)
           \/ \E c \in Configs : SetPeers(s, c[s])
    PROVE  TypeOK'
<1>s. Summary(s) \in StateFile
  BY SummaryType
<1>1. CASE NewKeys(s)
  <2>1. key' \in [Servers -> Keys] /\ key'[s] \in Keys
    BY <1>1 DEF TypeOK, NewKeys
  <2>2. [Summary(s) EXCEPT !.key = key'[s]] \in StateFile
    BY <1>s, <2>1 DEF StateFile
  <2>3. state_file' \in [Servers -> StateFile]
    BY <1>1, <2>2 DEF TypeOK, NewKeys
  <2>4. budget' \in [Kinds -> Nat]
    BY <1>1, SpendType DEF NewKeys, Kinds
  <2> QED
    BY <1>1, <2>1, <2>3, <2>4 DEF TypeOK, NewKeys
<1>2. CASE WorkerWrite(s)
  <2>1. mode' \in [Servers -> Modes] /\ mode'[s] \in Modes
    BY <1>2 DEF TypeOK, WorkerWrite, Modes
  <2>2. [Summary(s) EXCEPT !.mode = mode'[s]] \in StateFile
    BY <1>s, <2>1 DEF StateFile
  <2>3. state_file' \in [Servers -> StateFile]
    BY <1>2, <2>2 DEF TypeOK, WorkerWrite
  <2>4. budget' \in [Kinds -> Nat]
    BY <1>2, SpendType DEF WorkerWrite, Kinds, TypeOK
  <2> QED
    BY <1>2, <2>1, <2>3, <2>4 DEF TypeOK, WorkerWrite
<1>3. ASSUME NEW t \in Servers, SyncKeysCheck(s, t) PROVE TypeOK'
  <2>1. [at |-> s, pc |-> "fetch", key |-> AnyKey, remote |-> t,
         caller |-> Orphan] \in Handler
    BY NoCallType DEF Handler
  <2>2. handlers' \subseteq Handler
    BY <1>3, <2>1 DEF TypeOK, SyncKeysCheck
  <2>3. budget' \in [Kinds -> Nat]
    BY <1>3, SpendType DEF SyncKeysCheck, Kinds
  <2> QED
    BY <1>3, <2>2, <2>3 DEF TypeOK, SyncKeysCheck
<1>4. ASSUME NEW c \in Configs, SetPeers(s, c[s]) PROVE TypeOK'
  <2>1. c[s] \in SUBSET Servers
    BY ConfigsListTheServer
  <2>2. peers' \in [Servers -> SUBSET Servers]
    BY <1>4, <2>1 DEF TypeOK, SetPeers
  <2>3. budget' \in [Kinds -> Nat]
    BY <1>4, SpendType DEF SetPeers, Kinds
  <2> QED
    BY <1>4, <2>2, <2>3 DEF TypeOK, SetPeers
<1> QED
  BY <1>1, <1>2, <1>3, <1>4

LEMMA RestartType ==
    ASSUME TypeOK, NEW s \in Servers, Crash(s) \/ Restart(s)
    PROVE  TypeOK'
<1>s. /\ state_file[s] \in StateFile /\ state_file[s].key \in Keys
      /\ state_file[s].peers \in SUBSET Servers
  BY DEF TypeOK, StateFile
<1>1. CASE Crash(s)
  <2>1. [th \in Threads |-> NoCall] \in [Threads -> Call]
    BY NoCallType
  <2>2. call' \in [Servers -> [Threads -> Call]]
    BY <1>1, <2>1 DEF TypeOK, Crash
  <2>3. \A h \in Handler : [h EXCEPT !.caller = Orphan] \in Handler
    BY DEF Handler
  <2>4. handlers' \subseteq Handler
    BY <1>1, <2>3 DEF TypeOK, Crash
  <2>5. budget' \in [Kinds -> Nat]
    BY <1>1, SpendType DEF Crash, Kinds
  <2>6. up' \in [Servers -> {"up", "down", "starting"}] /\ mode' \in [Servers -> Modes]
    BY <1>1 DEF TypeOK, Crash, Modes
  <2> QED
    BY <1>1, <2>2, <2>4, <2>5, <2>6 DEF TypeOK, Crash
<1>2. CASE RestartIdle(s)
  BY <1>2, <1>s DEF TypeOK, RestartIdle
<1>3. CASE StartFresh(s)
  <2>1. key' \in [Servers -> Keys] /\ key'[s] \in Keys
    BY <1>3 DEF TypeOK, StartFresh
  <2>2. config[s] \in SUBSET Servers
    BY ConfigsListTheServer DEF TypeOK
  <2>3. [mode |-> "idle", key |-> key'[s], peers |-> config[s]] \in StateFile
    BY <2>1, <2>2 DEF StateFile, Modes
  <2>4. state_file' \in [Servers -> StateFile]
    BY <1>3, <2>3 DEF TypeOK, StartFresh
  <2> QED
    BY <1>3, <2>1, <2>2, <2>4 DEF TypeOK, StartFresh
<1>4. CASE RestoreBegin(s)
  BY <1>4, <1>s DEF TypeOK, RestoreBegin
<1>5. ASSUME NEW t \in Servers, RestoreStatus(s, t) PROVE TypeOK'
  <2>1. budget' \in [Kinds -> Nat]
    BY <1>5, SpendType DEF RestoreStatus, Kinds, TypeOK
  <2>2. asked' \in [Servers -> SUBSET Servers]
    BY <1>5 DEF RestoreStatus, TypeOK
  <2>3. up' \in [Servers -> {"up", "down", "starting"}]
    BY <1>5 DEF RestoreStatus, TypeOK
  <2> QED
    BY <1>5, <2>1, <2>2, <2>3 DEF TypeOK, RestoreStatus
<1>6. CASE RestoreFinish(s)
  BY <1>6 DEF TypeOK, RestoreFinish, Modes
<1> QED
  BY <1>1, <1>2, <1>3, <1>4, <1>5, <1>6 DEF Restart

LEMMA TypeInit == Init => TypeOK
<1> SUFFICES ASSUME Init PROVE TypeOK
  OBVIOUS
<1>1. config \in [Servers -> SUBSET Servers]
  BY ConfigsListTheServer DEF Init
<1>2. key \in [Servers -> Keys]
  BY KeysAreDrawn DEF Init
<1>3. \A s \in Servers : [mode |-> "idle", key |-> key[s], peers |-> peers[s]] \in StateFile
  BY <1>1, <1>2 DEF Init, StateFile, Modes
<1>4. ASSUME NEW s \in Servers PROVE NoCall \in Call
  <2>1. AnyKey \in Keys /\ (CHOOSE t \in Servers : TRUE) \in Servers
    BY <1>2 DEF AnyKey
  <2>2. NoStatus \in Status
    BY <2>1 DEF NoStatus, Status
  <2> QED
    BY <2>1, <2>2 DEF NoCall, Call, PCs
<1>5. call \in [Servers -> [Threads -> Call]]
  BY <1>4 DEF Init
<1>6. budget \in [Kinds -> Nat]
  BY BudgetsAreNatural DEF Init
<1>7. state_file \in [Servers -> StateFile]
  BY <1>3 DEF Init
<1>8. mode \in [Servers -> Modes] /\ up \in [Servers -> {"up", "down", "starting"}]
  BY DEF Init, Modes
<1>9. handlers \subseteq Handler /\ hung \subseteq Servers
      /\ asked \in [Servers -> SUBSET Servers] /\ peers = config /\ config \in Configs
  BY DEF Init
<1> QED
  BY <1>1, <1>2, <1>5, <1>6, <1>7, <1>8, <1>9 DEF TypeOK

LEMMA TypeStep == TypeOK /\ [Next]_vars => TypeOK'
<1> SUFFICES ASSUME TypeOK, [Next]_vars PROVE TypeOK'
  OBVIOUS
<1>1. ASSUME NEW s \in Servers, NEW th \in Threads, CallStep(s, th) PROVE TypeOK'
  BY <1>1, ActivateType, UpdateType DEF CallStep
<1>2. CASE UNCHANGED vars
  BY <1>2 DEF TypeOK, vars
<1> QED
  BY <1>1, <1>2, ActivateType, OperatorType, RestartType, HandlerType DEF Next

-----------------------------------------------------------------------------
(* The caller of an update waits for it, and waits for one only. *)

Waiting ==
    \A h \in handlers : h.caller # Orphan =>
        /\ call[h.caller[1]][h.caller[2]].pc = "wait"
        /\ \A g \in handlers : g.caller = h.caller => g = h

LEMMA CallerPair ==
    ASSUME TypeOK, NEW h \in handlers, h.caller # Orphan
    PROVE  /\ h.caller[1] \in Servers /\ h.caller[2] \in Threads
           /\ h.caller = <<h.caller[1], h.caller[2]>>
<1>1. h.caller \in Caller
  BY DEF TypeOK, Handler
<1> QED
  BY <1>1 DEF Caller

LEMMA PairIsNotOrphan == ASSUME NEW s, NEW th PROVE <<s, th>> # Orphan
BY DEF Orphan

\* A call that was not waiting goes on.
LEMMA WaitingKept ==
    ASSUME TypeOK, Waiting, UNCHANGED handlers, NEW s \in Servers,
           NEW th \in Threads, call[s][th].pc # "wait",
           \E d \in Call : Goes(s, th, d)
    PROVE  Waiting'
<1> SUFFICES ASSUME NEW h \in handlers, h.caller # Orphan
             PROVE  /\ call'[h.caller[1]][h.caller[2]].pc = "wait"
                    /\ \A g \in handlers : g.caller = h.caller => g = h
  BY DEF Waiting
<1>1. /\ call[h.caller[1]][h.caller[2]].pc = "wait"
      /\ \A g \in handlers : g.caller = h.caller => g = h
  BY DEF Waiting
<1>2. /\ h.caller[1] \in Servers /\ h.caller[2] \in Threads
  BY CallerPair
<1>3. ~(h.caller[1] = s /\ h.caller[2] = th)
  BY <1>1
<1>4. <<h.caller[1], h.caller[2]>> # <<s, th>>
  BY <1>3
<1>5. call'[h.caller[1]][h.caller[2]] = call[h.caller[1]][h.caller[2]]
  BY <1>2, <1>4, GoesOn
<1> QED
  BY <1>1, <1>5

\* A call that was not waiting now waits for a new handler.
LEMMA WaitingBegins ==
    ASSUME TypeOK, Waiting, NEW s \in Servers, NEW th \in Threads,
           call[s][th].pc # "wait", NEW d \in Call, d.pc = "wait", Goes(s, th, d),
           NEW n, n.caller = <<s, th>>, handlers' = handlers \cup {n}
    PROVE  Waiting'
<1>1. \A h \in handlers : h.caller # <<s, th>>
  <2> SUFFICES ASSUME NEW h \in handlers, h.caller = <<s, th>> PROVE FALSE
    OBVIOUS
  <2>1. h.caller # Orphan
    BY PairIsNotOrphan
  <2>2. call[h.caller[1]][h.caller[2]].pc = "wait"
    BY <2>1, ZenonT(30) DEF Waiting
  <2> QED
    BY <2>2
<1>2. call'[s][th].pc = "wait"
  BY GoesOn
<1>3. ASSUME NEW h \in handlers, h.caller # Orphan
      PROVE  /\ call'[h.caller[1]][h.caller[2]].pc = "wait"
             /\ \A g \in handlers' : g.caller = h.caller => g = h
  <2>1. /\ h.caller[1] \in Servers /\ h.caller[2] \in Threads
        /\ h.caller = <<h.caller[1], h.caller[2]>>
    BY <1>3, CallerPair
  <2>2. call'[h.caller[1]][h.caller[2]] = call[h.caller[1]][h.caller[2]]
    BY <1>1, <2>1, GoesOn
  <2>3. /\ call[h.caller[1]][h.caller[2]].pc = "wait"
        /\ \A g \in handlers : g.caller = h.caller => g = h
    BY <1>3 DEF Waiting
  <2> QED
    BY <1>1, <2>2, <2>3
<1>4. \A g \in handlers' : g.caller = n.caller => g = n
  BY <1>1
<1>5. call'[n.caller[1]][n.caller[2]].pc = "wait"
  BY <1>2
<1> QED
  BY <1>3, <1>4, <1>5 DEF Waiting

\* A handler goes on, or ends without an answer; the calls stay.
LEMMA WaitingMoves ==
    ASSUME TypeOK, Waiting, UNCHANGED call, NEW h \in handlers, NEW n,
           n.caller = h.caller,
           \/ handlers' = (handlers \ {h}) \cup {n}
           \/ handlers' = handlers \ {h}
    PROVE  Waiting'
BY DEF Waiting

\* A handler answers.
LEMMA WaitingEnds ==
    ASSUME TypeOK, Waiting, NEW h \in handlers, NEW ok \in BOOLEAN, Answer(h, ok),
           handlers' = handlers \ {h}
    PROVE  Waiting'
<1>1. CASE h.caller = Orphan
  BY <1>1 DEF Answer, Waiting
<1>2. CASE h.caller # Orphan
  <2> SUFFICES ASSUME NEW g \in handlers', g.caller # Orphan
               PROVE  /\ call'[g.caller[1]][g.caller[2]].pc = "wait"
                      /\ \A f \in handlers' : f.caller = g.caller => f = g
    BY DEF Waiting
  <2>1. g \in handlers /\ g # h
    OBVIOUS
  <2>2. g.caller # h.caller
    BY <1>2, <2>1 DEF Waiting
  <2>3. /\ g.caller[1] \in Servers /\ g.caller[2] \in Threads
        /\ g.caller = <<g.caller[1], g.caller[2]>>
    BY <2>1, CallerPair
  <2>4. /\ h.caller[1] \in Servers /\ h.caller[2] \in Threads
        /\ h.caller = <<h.caller[1], h.caller[2]>>
        /\ \E d \in Call : Goes(h.caller[1], h.caller[2], d) /\ d.pc # "wait"
    BY <1>2, AnswerGoesOn
  <2>5. <<g.caller[1], g.caller[2]>> # <<h.caller[1], h.caller[2]>>
    BY <2>2, <2>3, <2>4
  <2>6. call'[g.caller[1]][g.caller[2]] = call[g.caller[1]][g.caller[2]]
    BY <2>3, <2>4, <2>5, GoesOn
  <2> QED
    BY <2>1, <2>6 DEF Waiting
<1> QED
  BY <1>1, <1>2

\* The callers in the set L are gone: their handlers go on without them.
LEMMA WaitingOrphans ==
    ASSUME TypeOK, Waiting, NEW L, NEW H \in SUBSET handlers,
           handlers' = {IF h.caller \in L THEN [h EXCEPT !.caller = Orphan] ELSE h :
                          h \in H},
           \A u \in Servers, v \in Threads :
             <<u, v>> \notin L => call'[u][v] = call[u][v]
    PROVE  Waiting'
<1>1. \A h \in H : [h EXCEPT !.caller = Orphan].caller = Orphan
  BY DEF TypeOK, Handler
<1>2. \A g \in handlers' : g.caller # Orphan => g \in handlers /\ g.caller \notin L
  BY <1>1, ZenonT(30)
<1> SUFFICES ASSUME NEW g \in handlers', g.caller # Orphan
             PROVE  /\ call'[g.caller[1]][g.caller[2]].pc = "wait"
                    /\ \A f \in handlers' : f.caller = g.caller => f = g
  BY DEF Waiting
<1>3. g \in handlers /\ g.caller \notin L
  BY <1>2
<1>4. /\ call[g.caller[1]][g.caller[2]].pc = "wait"
      /\ \A f \in handlers : f.caller = g.caller => f = g
  BY <1>3 DEF Waiting
<1>5. /\ g.caller[1] \in Servers /\ g.caller[2] \in Threads
      /\ g.caller = <<g.caller[1], g.caller[2]>>
  BY <1>3, CallerPair
<1>6. call'[g.caller[1]][g.caller[2]] = call[g.caller[1]][g.caller[2]]
  BY <1>3, <1>5, ZenonT(30)
<1> QED
  BY <1>2, <1>4, <1>6

LEMMA WaitingActivate ==
    ASSUME TypeOK, Waiting, TypeOK', NEW s \in Servers,
           ActivateBegin(s) \/ ActivateStep(s) \/ CheckupStep(s)
    PROVE  Waiting'
<1> "activate" \in Threads /\ "checkup" \in Threads
  BY DEF Threads
<1>0. UNCHANGED handlers
  BY ZenonT(30) DEF ActivateBegin, ActivateStep, CheckupStep, ActivateOwnKey, ActivateConfirm,
         ActivateFinish, ActivateWrite, ActivateStatus, CheckupBegin, CheckupOwn,
         CheckupStatus
<1>t. call'[s]["activate"] \in Call /\ call'[s]["checkup"] \in Call
  BY DEF TypeOK
<1>1. \A th \in Threads : \A d : Goes(s, th, d) => call'[s][th] = d
  BY DEF Goes, TypeOK
<1>2. CASE ActivateBegin(s) \/ ActivateStep(s)
  <2>1. call[s]["activate"].pc # "wait"
    BY <1>2, ZenonT(30) DEF ActivateBegin, ActivateStep, ActivateOwnKey, ActivateConfirm,
                ActivateFinish, ActivateWrite, ActivateStatus
  <2>2. \E d : Goes(s, "activate", d)
    BY <1>2, ZenonT(30) DEF ActivateBegin, ActivateStep, ActivateOwnKey, ActivateConfirm,
                ActivateFinish, ActivateWrite, ActivateStatus
  <2>3. \E d \in Call : Goes(s, "activate", d)
    BY <1>t, <1>1, <2>2
  <2> QED
    BY <1>0, <2>1, <2>3, WaitingKept
<1>3. CASE CheckupStep(s)
  <2>1. call[s]["checkup"].pc # "wait"
    BY <1>3, ZenonT(30) DEF CheckupStep, CheckupBegin, CheckupOwn, CheckupStatus
  <2>2. \E d : Goes(s, "checkup", d)
    BY <1>3, ZenonT(30) DEF CheckupStep, CheckupBegin, CheckupOwn, CheckupStatus
  <2>3. \E d \in Call : Goes(s, "checkup", d)
    BY <1>t, <1>1, <2>2
  <2> QED
    BY <1>0, <2>1, <2>3, WaitingKept
<1> QED
  BY <1>2, <1>3

LEMMA WaitingUpdate ==
    ASSUME TypeOK, Waiting, TypeOK', NEW s \in Servers, NEW th \in Threads,
           \/ SendKey(s, th) \/ SetKeyCheck(s, th) \/ SetPeersCall(s, th)
           \/ RpcFails(s, th)
    PROVE  Waiting'
<1> DEFINE c == call[s][th]
           t == c.summary.peer
           w == [c EXCEPT !.pc = "wait"]
<1>0. c \in Call /\ call'[s][th] \in Call
  BY DEF TypeOK
<1>1. \A d : Goes(s, th, d) => call'[s][th] = d
  BY DEF Goes, TypeOK
<1>w. w \in Call /\ w.pc = "wait"
  BY <1>0 DEF Call, PCs
<1>2. ASSUME UNCHANGED handlers, \E d : Goes(s, th, d), c.pc # "wait"
      PROVE  Waiting'
  <2>1. \E d \in Call : Goes(s, th, d)
    BY <1>0, <1>1, <1>2
  <2> QED
    BY <1>2, <2>1, WaitingKept
<1>3. CASE SendKey(s, th)
  BY <1>2, <1>3 DEF SendKey
<1>4. CASE SetKeyCheck(s, th)
  <2> DEFINE n == [at |-> t, pc |-> "apply", key |-> c.our_key, remote |-> s,
                   caller |-> <<s, th>>]
  <2>0. c.pc # "wait"
    BY <1>4 DEF SetKeyCheck
  <2>1. CASE mode[t] = "active"
    BY <1>2, <1>4, <2>0, <2>1 DEF SetKeyCheck
  <2>2. CASE mode[t] # "active"
    <3>1. Goes(s, th, w) /\ handlers' = handlers \cup {n}
      BY <1>4, <2>2 DEF SetKeyCheck
    <3>2. n.caller = <<s, th>>
      OBVIOUS
    <3> HIDE DEF n, w
    <3> QED
      BY <1>w, <2>0, <3>1, <3>2, WaitingBegins
  <2> QED
    BY <2>1, <2>2
<1>5. CASE SetPeersCall(s, th)
  <2> DEFINE n == [at |-> t, pc |-> "reply", key |-> c.our_key, remote |-> s,
                   caller |-> <<s, th>>]
  <2>0. c.pc # "wait"
    BY <1>5 DEF SetPeersCall
  <2>1. CASE t \notin c.our_peers
    BY <1>2, <1>5, <2>0, <2>1 DEF SetPeersCall
  <2>2. CASE t \in c.our_peers
    <3>1. Goes(s, th, w) /\ handlers' = handlers \cup {n}
      BY <1>5, <2>2 DEF SetPeersCall
    <3>2. n.caller = <<s, th>>
      OBVIOUS
    <3> HIDE DEF n, w
    <3> QED
      BY <1>w, <2>0, <3>1, <3>2, WaitingBegins
  <2> QED
    BY <2>1, <2>2
<1>6. CASE RpcFails(s, th)
  <2>1. CASE c.pc = "status" /\ UNCHANGED handlers /\ \E d : Goes(s, th, d)
    BY <1>2, <2>1
  <2>2. CASE /\ Goes(s, th, Failed(c, th))
             /\ handlers' = {IF h.caller = <<s, th>> THEN [h EXCEPT !.caller = Orphan]
                             ELSE h : h \in handlers}
    <3>1. Failed(c, th) \in Call
      BY <1>0, FailedType
    <3>2. \A u \in Servers, v \in Threads :
             <<u, v>> \notin {<<s, th>>} => call'[u][v] = call[u][v]
      BY <2>2, <3>1, GoesOn
    <3>3. handlers' = {IF h.caller \in {<<s, th>>} THEN [h EXCEPT !.caller = Orphan]
                       ELSE h : h \in handlers}
      BY <2>2, ZenonT(30)
    <3> QED
      BY <3>2, <3>3, WaitingOrphans, ZenonT(30)
  <2> QED
    BY <1>6, <2>1, <2>2, ZenonT(30) DEF RpcFails
<1> QED
  BY <1>3, <1>4, <1>5, <1>6

LEMMA WaitingHandler ==
    ASSUME TypeOK, Waiting, NEW h \in handlers, HandlerStep(h)
    PROVE  Waiting'
<1>0. h \in Handler
  BY DEF TypeOK
<1>1. CASE SetKeyApply(h)
  <2>1. [h EXCEPT !.pc = "write"].caller = h.caller
    BY <1>0 DEF Handler
  <2> QED
    BY <1>1, <2>1, WaitingMoves, ZenonT(30) DEF SetKeyApply
<1>2. CASE SetKeyWrite(h)
  BY <1>2, WaitingEnds, ZenonT(30) DEF SetKeyWrite
<1>3. CASE SetPeersReply(h)
  BY <1>3, WaitingEnds, ZenonT(30) DEF SetPeersReply
<1>4. CASE SyncKeysFetch(h)
  <2> DEFINE n == [h EXCEPT !.pc = "apply", !.key = key[h.remote]]
  <2>1. n.caller = h.caller
    BY <1>0 DEF Handler
  <2>2. \/ handlers' = (handlers \ {h}) \cup {n}
        \/ handlers' = handlers \ {h}
    BY <1>4 DEF SyncKeysFetch
  <2>3. UNCHANGED call
    BY <1>4 DEF SyncKeysFetch
  <2> HIDE DEF n
  <2> QED
    BY <2>1, <2>2, <2>3, WaitingMoves
<1> QED
  BY <1>1, <1>2, <1>3, <1>4 DEF HandlerStep

LEMMA WaitingOther ==
    ASSUME TypeOK, Waiting, NEW s \in Servers,
           \/ NewKeys(s) \/ WorkerWrite(s) \/ Crash(s) \/ Restart(s)
           \/ \E t \in Servers : SyncKeysCheck(s, t)
           \/ \E c \in Configs : SetPeers(s, c[s])
    PROVE  Waiting'
<1>1. CASE Crash(s)
  <2> DEFINE L == {p \in Caller : p[1] = s}
             H == {g \in handlers : g.at # s}
  <2>1. \A h \in H : (h.caller # Orphan /\ h.caller[1] = s) <=> h.caller \in L
    <3> SUFFICES ASSUME NEW h \in H
                 PROVE  (h.caller # Orphan /\ h.caller[1] = s) <=> h.caller \in L
      OBVIOUS
    <3>1. h.caller \in Caller \cup {Orphan}
      BY DEF TypeOK, Handler
    <3>2. Orphan \notin Caller
      BY PairIsNotOrphan DEF Caller
    <3> QED
      BY <3>1, <3>2
  <2>2. handlers' = {IF h.caller \in L THEN [h EXCEPT !.caller = Orphan] ELSE h : h \in H}
    <3>1. handlers' = {IF h.caller # Orphan /\ h.caller[1] = s
                       THEN [h EXCEPT !.caller = Orphan] ELSE h : h \in H}
      BY <1>1, Zenon DEF Crash
    <3> HIDE DEF L, H
    <3> QED
      BY <2>1, <3>1
  <2>3. \A u \in Servers, v \in Threads :
           <<u, v>> \notin L => call'[u][v] = call[u][v]
    BY <1>1 DEF Crash, TypeOK, Caller
  <2>4. H \in SUBSET handlers
    OBVIOUS
  <2> HIDE DEF L, H
  <2> QED
    BY <2>2, <2>3, <2>4, WaitingOrphans, ZenonT(30)
<1>2. ASSUME NEW t \in Servers, SyncKeysCheck(s, t) PROVE Waiting'
  <2> DEFINE n == [at |-> s, pc |-> "fetch", key |-> AnyKey, remote |-> t,
                   caller |-> Orphan]
  <2>1. handlers' = handlers \cup {n} /\ UNCHANGED call
    BY <1>2 DEF SyncKeysCheck
  <2>2. n.caller = Orphan
    OBVIOUS
  <2> HIDE DEF n
  <2> QED
    BY <2>1, <2>2 DEF Waiting
<1>3. CASE UNCHANGED <<handlers, call>>
  BY <1>3 DEF Waiting
<1>4. NewKeys(s) \/ WorkerWrite(s) \/ Restart(s) \/ (\E c \in Configs : SetPeers(s, c[s]))
        => UNCHANGED <<handlers, call>>
  BY DEF NewKeys, WorkerWrite, Restart, RestartIdle, StartFresh, RestoreBegin,
         RestoreFinish, RestoreStatus, SetPeers
<1> QED
  BY <1>1, <1>2, <1>3, <1>4

LEMMA WaitingStep == TypeOK /\ TypeOK' /\ Waiting /\ [Next]_vars => Waiting'
<1> SUFFICES ASSUME TypeOK, TypeOK', Waiting, [Next]_vars PROVE Waiting'
  OBVIOUS
<1>1. ASSUME NEW s \in Servers, NEW th \in Threads, CallStep(s, th) PROVE Waiting'
  BY <1>1, WaitingActivate, WaitingUpdate DEF CallStep
<1>2. CASE UNCHANGED vars
  BY <1>2 DEF Waiting, vars
<1> QED
  BY <1>1, <1>2, WaitingActivate, WaitingOther, WaitingHandler DEF Next

-----------------------------------------------------------------------------
(* Exclusion. *)

\* A server that is active or on its way there, from its first question to its
\* peers on.
Engaged(s) ==
    \/ mode[s] = "active" \/ up[s] = "starting"
    \/ call[s]["activate"].pc \notin {"none", "write"}

\* Of two engaged servers one has not found the other idle.
Exclusion ==
    \A s, t \in Servers :
        s # t /\ Engaged(s) /\ Engaged(t) => ~(t \in asked[s] /\ s \in asked[t])

LEMMA ExclusionKept ==
    ASSUME Exclusion, UNCHANGED asked,
           \A s \in Servers : Engaged(s)' => Engaged(s)
    PROVE  Exclusion'
BY DEF Exclusion

\* A server forgets whom it asked.
LEMMA ExclusionBegins ==
    ASSUME Exclusion, TypeOK, NEW s \in Servers, asked' = [asked EXCEPT ![s] = {}],
           \A u \in Servers \ {s} : Engaged(u)' => Engaged(u)
    PROVE  Exclusion'
<1>1. asked'[s] = {} /\ \A u \in Servers \ {s} : asked'[u] = asked[u]
  BY DEF TypeOK
<1> QED
  BY <1>1 DEF Exclusion

\* A server finds another that is not engaged.
LEMMA ExclusionAsks ==
    ASSUME Exclusion, TypeOK, NEW s \in Servers, NEW t \in Servers,
           asked' = [asked EXCEPT ![s] = @ \cup {t}], ~Engaged(t),
           \A u \in Servers : Engaged(u)' => Engaged(u)
    PROVE  Exclusion'
<1>1. /\ asked'[s] = asked[s] \cup {t}
      /\ \A u \in Servers \ {s} : asked'[u] = asked[u]
  BY DEF TypeOK
<1> QED
  BY <1>1 DEF Exclusion

LEMMA ExclusionStep ==
    TypeOK /\ TypeOK' /\ Waiting /\ Exclusion /\ [Next]_vars => Exclusion'
<1> SUFFICES ASSUME TypeOK, TypeOK', Waiting, Exclusion, [Next]_vars PROVE Exclusion'
  OBVIOUS
<1> "activate" \in Threads /\ "checkup" \in Threads /\ "activate" # "checkup"
  BY DEF Threads
\* What a call of s does to who is engaged.
<1>g. ASSUME NEW s \in Servers, NEW th \in Threads, NEW d, Goes(s, th, d),
             UNCHANGED <<mode, up>>,
             th = "activate" => \/ d.pc \in {"none", "write"}
                                \/ call[s]["activate"].pc \notin {"none", "write"}
      PROVE  \A u \in Servers : Engaged(u)' => Engaged(u)
  BY <1>g DEF Goes, TypeOK, Engaged
<1>i. ASSUME NEW t \in Servers, up[t] = "up", ~Locked(t), mode[t] # "active"
      PROVE  ~Engaged(t)
  BY <1>i DEF Locked, Engaged
<1>m. \A t \in Servers : mode[t] = "idle" <=> mode[t] # "active"
  BY DEF TypeOK, Modes
<1>n. \A s \in Servers : NoCall.pc = "none"
  BY DEF NoCall
<1>1. ASSUME NEW s \in Servers, ActivateBegin(s) PROVE Exclusion'
  <2>1. \A u \in Servers \ {s} : Engaged(u)' => Engaged(u)
    BY <1>1 DEF ActivateBegin, Goes, Engaged, TypeOK
  <2> QED
    BY <1>1, <2>1, ExclusionBegins, ZenonT(30) DEF ActivateBegin
<1>2. ASSUME NEW s \in Servers, NEW t \in Servers, ActivateStatus(s, t)
      PROVE  Exclusion'
  <2>1. \A u \in Servers : Engaged(u)' => Engaged(u)
    BY <1>2, <1>g DEF ActivateStatus
  <2>2. CASE mode[t] = "active"
    BY <1>2, <2>1, <2>2, ExclusionKept DEF ActivateStatus
  <2>3. CASE mode[t] # "active"
    BY <1>2, <1>i, <2>1, <2>3, ExclusionAsks DEF ActivateStatus
  <2> QED
    BY <2>2, <2>3
<1>3. ASSUME NEW s \in Servers,
             ActivateOwnKey(s) \/ ActivateConfirm(s) \/ ActivateWrite(s)
      PROVE  Exclusion'
  <2>1. \A u \in Servers : Engaged(u)' => Engaged(u)
    BY <1>3, <1>g, <1>n, ZenonT(30) DEF ActivateOwnKey, ActivateConfirm, ActivateWrite
  <2>2. UNCHANGED asked
    BY <1>3, ZenonT(30) DEF ActivateOwnKey, ActivateConfirm, ActivateWrite
  <2> QED
    BY <2>1, <2>2, ExclusionKept
<1>4. ASSUME NEW s \in Servers, ActivateFinish(s) PROVE Exclusion'
  <2>1. \A u \in Servers : Engaged(u)' => Engaged(u)
    BY <1>4 DEF ActivateFinish, Goes, Engaged, TypeOK
  <2> QED
    BY <1>4, <2>1, ExclusionKept DEF ActivateFinish
<1>5. ASSUME NEW s \in Servers, CheckupStep(s) PROVE Exclusion'
  <2>1. \A u \in Servers : Engaged(u)' => Engaged(u)
    BY <1>5, <1>g, ZenonT(30) DEF CheckupStep, CheckupBegin, CheckupOwn, CheckupStatus
  <2>2. UNCHANGED asked
    BY <1>5, ZenonT(30) DEF CheckupStep, CheckupBegin, CheckupOwn, CheckupStatus
  <2> QED
    BY <2>1, <2>2, ExclusionKept
<1>6. ASSUME NEW s \in Servers, NEW th \in Threads,
             SendKey(s, th) \/ SetKeyCheck(s, th) \/ SetPeersCall(s, th) \/ RpcFails(s, th)
      PROVE  Exclusion'
  <2>1. call[s][th].pc \notin {"none", "write"} /\ \E d : Goes(s, th, d)
    BY <1>6, ZenonT(30) DEF SendKey, SetKeyCheck, SetPeersCall, RpcFails
  <2>2. UNCHANGED <<mode, up, asked>>
    BY <1>6, ZenonT(30) DEF SendKey, SetKeyCheck, SetPeersCall, RpcFails
  <2>3. \A u \in Servers : Engaged(u)' => Engaged(u)
    BY <1>g, <2>1, <2>2
  <2> QED
    BY <2>2, <2>3, ExclusionKept
<1>7. ASSUME NEW h \in handlers, HandlerStep(h) PROVE Exclusion'
  <2>1. UNCHANGED <<mode, up, asked>>
    BY <1>7 DEF HandlerStep, SetKeyApply, SetKeyWrite, SetPeersReply, SyncKeysFetch
  <2>2. CASE UNCHANGED call
    BY <2>1, <2>2, ExclusionKept DEF Engaged
  <2>3. ASSUME NEW ok \in BOOLEAN, Answer(h, ok), h.caller # Orphan PROVE Exclusion'
    <3>1. /\ h.caller[1] \in Servers /\ h.caller[2] \in Threads
          /\ \E d \in Call : Goes(h.caller[1], h.caller[2], d)
      BY <2>3, AnswerGoesOn
    <3>2. call[h.caller[1]][h.caller[2]].pc = "wait"
      BY <2>3 DEF Waiting
    <3>3. \A u \in Servers : Engaged(u)' => Engaged(u)
      BY <1>g, <2>1, <3>1, <3>2
    <3> QED
      BY <2>1, <3>3, ExclusionKept
  <2>4. ASSUME NEW ok \in BOOLEAN, Answer(h, ok) PROVE Exclusion'
    BY <2>2, <2>3, <2>4 DEF Answer
  <2>5. CASE SetKeyWrite(h) \/ SetPeersReply(h)
    BY <2>4, <2>5, ZenonT(30) DEF SetKeyWrite, SetPeersReply
  <2>6. CASE SetKeyApply(h) \/ SyncKeysFetch(h)
    BY <2>2, <2>6 DEF SetKeyApply, SyncKeysFetch
  <2> QED
    BY <1>7, <2>5, <2>6 DEF HandlerStep
<1>8. ASSUME NEW s \in Servers,
             \/ NewKeys(s) \/ WorkerWrite(s) \/ Crash(s) \/ RestartIdle(s)
             \/ StartFresh(s) \/ RestoreFinish(s)
             \/ \E t \in Servers : SyncKeysCheck(s, t)
             \/ \E c \in Configs : SetPeers(s, c[s])
      PROVE  Exclusion'
  <2>1. UNCHANGED asked
    BY <1>8 DEF NewKeys, WorkerWrite, Crash, RestartIdle, StartFresh, RestoreFinish,
                SyncKeysCheck, SetPeers
  <2>2. CASE WorkerWrite(s)
    BY <2>1, <2>2, ExclusionKept DEF WorkerWrite, Engaged, TypeOK
  <2>3. CASE Crash(s)
    BY <1>n, <2>1, <2>3, ExclusionKept DEF Crash, Engaged, TypeOK
  <2>4. CASE RestartIdle(s) \/ StartFresh(s) \/ RestoreFinish(s)
    <3>1. \A u \in Servers : Engaged(u)' => Engaged(u)
      BY <2>4 DEF RestartIdle, StartFresh, RestoreFinish, Engaged, TypeOK
    <3> QED
      BY <2>1, <3>1, ExclusionKept
  <2>5. CASE UNCHANGED <<mode, up, call>>
    BY <2>1, <2>5, ExclusionKept DEF Engaged
  <2> QED
    BY <1>8, <2>2, <2>3, <2>4, <2>5 DEF NewKeys, SyncKeysCheck, SetPeers
<1>9. ASSUME NEW s \in Servers, RestoreBegin(s) PROVE Exclusion'
  <2>1. \A u \in Servers \ {s} : Engaged(u)' => Engaged(u)
    BY <1>9 DEF RestoreBegin, Engaged, TypeOK
  <2> QED
    BY <1>9, <2>1, ExclusionBegins, ZenonT(30) DEF RestoreBegin
<1>10. ASSUME NEW s \in Servers, NEW t \in Servers, RestoreStatus(s, t)
       PROVE  Exclusion'
  <2>1. \A u \in Servers : Engaged(u)' => Engaged(u)
    BY <1>10 DEF RestoreStatus, Engaged, TypeOK
  <2>2. CASE UNCHANGED asked
    BY <2>1, <2>2, ExclusionKept
  <2>3. CASE up[t] = "up" /\ ~Locked(t) /\ mode[t] = "idle"
             /\ asked' = [asked EXCEPT ![s] = @ \cup {t}]
    BY <1>i, <1>m, <2>1, <2>3, ExclusionAsks, ZenonT(30)
  <2> QED
    BY <1>10, <2>2, <2>3 DEF RestoreStatus
<1>11. CASE UNCHANGED vars
  BY <1>11, ExclusionKept DEF vars, Engaged
<1>12. ASSUME NEW s \in Servers, NEW th \in Threads, CallStep(s, th) PROVE Exclusion'
  BY <1>2, <1>3, <1>4, <1>5, <1>6, <1>12 DEF CallStep, ActivateStep
<1> QED
  BY <1>1, <1>7, <1>8, <1>9, <1>10, <1>11, <1>12 DEF Next, Restart

-----------------------------------------------------------------------------
(* The key and the state file. *)

\* A key transfer at s is between its two steps.
Transfer(s) == \E h \in handlers : h.at = s /\ h.pc = "write"

\* KeyInStateFile, also for a server that is still starting.
KeySaved ==
    \A s \in Servers : up[s] # "down" => state_file[s].key = key[s] \/ Transfer(s)

\* Nothing happens to keys, and transfers go on.
LEMMA KeySavedKept ==
    ASSUME KeySaved, UNCHANGED <<key, state_file>>,
           \A s \in Servers : up'[s] # "down" => up[s] # "down",
           \A s \in Servers : up'[s] # "down" /\ Transfer(s) => Transfer(s)'
    PROVE  KeySaved'
BY DEF KeySaved

\* A server writes its state file, or starts from it.
LEMMA KeySavedWritten ==
    ASSUME KeySaved, NEW s \in Servers, state_file'[s].key = key'[s],
           \A u \in Servers \ {s} : /\ state_file'[u] = state_file[u] /\ key'[u] = key[u]
                                    /\ up'[u] = up[u] /\ (Transfer(u) => Transfer(u)')
    PROVE  KeySaved'
BY DEF KeySaved

LEMMA TransferKept ==
    ASSUME NEW s, \A h \in handlers : h.at = s /\ h.pc = "write" => h \in handlers'
    PROVE  Transfer(s) => Transfer(s)'
BY DEF Transfer

LEMMA KeySavedStep == TypeOK /\ KeySaved /\ [Next]_vars => KeySaved'
<1> SUFFICES ASSUME TypeOK, KeySaved, [Next]_vars PROVE KeySaved'
  OBVIOUS
<1>0. \A s \in Servers : Summary(s).key = key[s]
  BY DEF Summary
<1>1. ASSUME UNCHANGED <<key, state_file, handlers>>,
             \A s \in Servers : up'[s] # "down" => up[s] # "down"
      PROVE  KeySaved'
  BY <1>1, KeySavedKept DEF Transfer
<1>2. ASSUME NEW s \in Servers,
             \/ ActivateBegin(s) \/ ActivateOwnKey(s) \/ ActivateConfirm(s)
             \/ ActivateFinish(s) \/ \E t \in Servers : ActivateStatus(s, t)
             \/ CheckupStep(s) \/ \E c \in Configs : SetPeers(s, c[s])
      PROVE  KeySaved'
  BY <1>1, <1>2, ZenonT(30) DEF ActivateBegin, ActivateOwnKey, ActivateConfirm, ActivateFinish,
       ActivateStatus, CheckupStep, CheckupBegin, CheckupOwn, CheckupStatus, SetPeers
<1>3. ASSUME NEW s \in Servers, ActivateWrite(s) \/ WorkerWrite(s) \/ NewKeys(s)
      PROVE  KeySaved'
  <2>1. UNCHANGED <<handlers, up>>
    BY <1>3 DEF ActivateWrite, WorkerWrite, NewKeys
  <2>2. \A u \in Servers \ {s} : state_file'[u] = state_file[u] /\ key'[u] = key[u]
    BY <1>3 DEF ActivateWrite, WorkerWrite, NewKeys, TypeOK
  <2>3. state_file'[s].key = key'[s]
    <3>1. Summary(s) \in StateFile
      BY SummaryType
    <3>2. \A m, k : [Summary(s) EXCEPT !.mode = m].key = Summary(s).key
                    /\ [Summary(s) EXCEPT !.key = k].key = k
      BY <3>1 DEF StateFile
    <3>3. \A v : state_file' = [state_file EXCEPT ![s] = v] => state_file'[s] = v
      BY DEF TypeOK
    <3>4. CASE ActivateWrite(s)
      BY <1>0, <3>3, <3>4, ZenonT(30) DEF ActivateWrite
    <3>5. CASE WorkerWrite(s)
      BY <1>0, <3>2, <3>3, <3>5, ZenonT(30) DEF WorkerWrite
    <3>6. CASE NewKeys(s)
      BY <3>2, <3>3, <3>6, ZenonT(30) DEF NewKeys
    <3> QED
      BY <1>3, <3>4, <3>5, <3>6
  <2> QED
    BY <2>1, <2>2, <2>3, KeySavedWritten DEF Transfer
<1>4. ASSUME NEW s \in Servers, RestartIdle(s) \/ StartFresh(s) \/ RestoreBegin(s)
      PROVE  KeySaved'
  <2>1. /\ UNCHANGED handlers
        /\ \A u \in Servers \ {s} :
             state_file'[u] = state_file[u] /\ key'[u] = key[u] /\ up'[u] = up[u]
    BY <1>4 DEF RestartIdle, StartFresh, RestoreBegin, TypeOK
  <2>2. state_file'[s].key = key'[s]
    BY <1>4 DEF RestartIdle, StartFresh, RestoreBegin, TypeOK
  <2> QED
    BY <2>1, <2>2, KeySavedWritten DEF Transfer
<1>5. ASSUME NEW s \in Servers, RestoreFinish(s) \/ \E t \in Servers : RestoreStatus(s, t)
      PROVE  KeySaved'
  <2>1. UNCHANGED <<key, state_file, handlers>>
    BY <1>5 DEF RestoreFinish, RestoreStatus
  <2>2. \A u \in Servers : up'[u] # "down" => up[u] # "down"
    BY <1>5 DEF RestoreFinish, RestoreStatus, TypeOK
  <2> QED
    BY <1>1, <2>1, <2>2
<1>6. ASSUME NEW s \in Servers, Crash(s) PROVE KeySaved'
  <2>1. UNCHANGED <<key, state_file>> /\ up' = [up EXCEPT ![s] = "down"]
    BY <1>6 DEF Crash
  <2>2. ASSUME NEW u \in Servers, up'[u] # "down", Transfer(u) PROVE Transfer(u)'
    <3>1. u # s
      BY <2>1, <2>2 DEF TypeOK
    <3>2. PICK h \in handlers : h.at = u /\ h.pc = "write"
      BY <2>2 DEF Transfer
    <3>3. h \in Handler
      BY DEF TypeOK
    <3>4. /\ [h EXCEPT !.caller = Orphan].at = u
          /\ [h EXCEPT !.caller = Orphan].pc = "write"
      BY <3>2, <3>3 DEF Handler
    <3>5. h \in handlers' \/ [h EXCEPT !.caller = Orphan] \in handlers'
      BY <1>6, <3>1, <3>2, ZenonT(30) DEF Crash
    <3> QED
      BY <3>2, <3>4, <3>5, ZenonT(30) DEF Transfer
  <2>3. \A u \in Servers : up'[u] # "down" => up[u] # "down"
    BY <2>1 DEF TypeOK
  <2> QED
    BY <2>1, <2>2, <2>3, KeySavedKept
<1>7. ASSUME NEW s \in Servers, NEW th \in Threads, RpcFails(s, th) PROVE KeySaved'
  <2>1. UNCHANGED <<key, state_file, up>>
    BY <1>7 DEF RpcFails
  <2>2. CASE UNCHANGED handlers
    BY <1>1, <2>1, <2>2
  <2>3. CASE handlers' = {IF h.caller = <<s, th>> THEN [h EXCEPT !.caller = Orphan]
                          ELSE h : h \in handlers}
    <3>1. ASSUME NEW u \in Servers, Transfer(u) PROVE Transfer(u)'
      <4>1. PICK h \in handlers : h.at = u /\ h.pc = "write"
        BY <3>1 DEF Transfer
      <4>2. h \in Handler
        BY DEF TypeOK
      <4>3. /\ [h EXCEPT !.caller = Orphan].at = u
            /\ [h EXCEPT !.caller = Orphan].pc = "write"
        BY <4>1, <4>2 DEF Handler
      <4>4. h \in handlers' \/ [h EXCEPT !.caller = Orphan] \in handlers'
        BY <2>3
      <4> QED
        BY <4>1, <4>3, <4>4, ZenonT(30) DEF Transfer
    <3> QED
      BY <2>1, <3>1, KeySavedKept
  <2> QED
    BY <1>7, <2>2, <2>3, ZenonT(30) DEF RpcFails
<1>8. ASSUME NEW s \in Servers, NEW th \in Threads,
             \/ SendKey(s, th) \/ SetKeyCheck(s, th) \/ SetPeersCall(s, th)
             \/ \E t \in Servers : SyncKeysCheck(s, t)
      PROVE  KeySaved'
  <2>1. UNCHANGED <<key, state_file, up>> /\ handlers \subseteq handlers'
    BY <1>8 DEF SendKey, SetKeyCheck, SetPeersCall, SyncKeysCheck
  <2> QED
    BY <2>1, KeySavedKept, TransferKept
<1>9. ASSUME NEW h \in handlers, SetKeyApply(h) PROVE KeySaved'
  <2>1. h \in Handler /\ h.at \in Servers
    BY DEF TypeOK, Handler
  <2>2. [h EXCEPT !.pc = "write"].at = h.at /\ [h EXCEPT !.pc = "write"].pc = "write"
    BY <2>1 DEF Handler
  <2>3. Transfer(h.at)'
    BY <1>9, <2>2, ZenonT(30) DEF SetKeyApply, Transfer
  <2>4. \A u \in Servers : Transfer(u) => Transfer(u)'
    BY <1>9, <2>3, TransferKept DEF SetKeyApply
  <2>5. \A u \in Servers \ {h.at} : key'[u] = key[u]
    BY <1>9, <2>1 DEF SetKeyApply, TypeOK
  <2>6. UNCHANGED <<up, state_file>>
    BY <1>9 DEF SetKeyApply
  <2> QED
    BY <2>3, <2>4, <2>5, <2>6 DEF KeySaved
<1>10. ASSUME NEW h \in handlers, SetKeyWrite(h) PROVE KeySaved'
  <2>1. h.at \in Servers
    BY DEF TypeOK, Handler
  <2>2. UNCHANGED <<key, up>> /\ handlers' = handlers \ {h}
    BY <1>10 DEF SetKeyWrite
  <2>3. state_file'[h.at].key = key'[h.at]
    BY <1>0, <1>10, <2>1 DEF SetKeyWrite, TypeOK
  <2>4. \A u \in Servers \ {h.at} :
          state_file'[u] = state_file[u] /\ (Transfer(u) => Transfer(u)')
    BY <1>10, <2>1, <2>2 DEF SetKeyWrite, TypeOK, Transfer
  <2> QED
    BY <2>1, <2>2, <2>3, <2>4, KeySavedWritten
<1>11. ASSUME NEW h \in handlers, SetPeersReply(h) \/ SyncKeysFetch(h) PROVE KeySaved'
  <2>1. UNCHANGED <<key, state_file, up>> /\ handlers \ {h} \subseteq handlers'
    BY <1>11 DEF SetPeersReply, SyncKeysFetch
  <2>2. h.pc # "write"
    BY <1>11 DEF SetPeersReply, SyncKeysFetch
  <2> QED
    BY <2>1, <2>2, KeySavedKept, TransferKept
<1>12. CASE UNCHANGED vars
  BY <1>1, <1>12 DEF vars
<1>13. ASSUME NEW s \in Servers, NEW th \in Threads, CallStep(s, th) PROVE KeySaved'
  BY <1>2, <1>3, <1>7, <1>8, <1>13 DEF CallStep, ActivateStep
<1>14. ASSUME NEW h \in handlers, HandlerStep(h) PROVE KeySaved'
  BY <1>9, <1>10, <1>11, <1>14 DEF HandlerStep
<1>15. ASSUME NEW s \in Servers, NewKeys(s) \/ WorkerWrite(s) \/ Crash(s) \/ Restart(s)
       PROVE  KeySaved'
  BY <1>3, <1>4, <1>5, <1>6, <1>15 DEF Restart
<1>16. ASSUME NEW s \in Servers, NEW t \in Servers, SyncKeysCheck(s, t) PROVE KeySaved'
  BY <1>8, <1>16 DEF Threads
<1> QED
  BY <1>2, <1>12, <1>13, <1>14, <1>15, <1>16 DEF Next

-----------------------------------------------------------------------------
(* The theorems. *)

\* The inductive invariant.
PeersInv == TypeOK /\ Waiting /\ Exclusion /\ KeySaved

LEMMA PeersInvInit == Init => PeersInv
<1> SUFFICES ASSUME Init PROVE PeersInv
  OBVIOUS
<1>1. TypeOK
  BY TypeInit
<1>2. Waiting /\ Exclusion
  BY DEF Init, Waiting, Exclusion
<1>3. KeySaved
  BY DEF Init, KeySaved
<1> QED
  BY <1>1, <1>2, <1>3 DEF PeersInv

LEMMA PeersInvAlways == Spec => []PeersInv
<1>1. PeersInv /\ [Next]_vars => PeersInv'
  BY TypeStep, WaitingStep, ExclusionStep, KeySavedStep DEF PeersInv
<1> QED
  BY <1>1, PeersInvInit, PTL DEF Spec

\* The peers' state is well typed, for any number of servers, whatever calls
\* overlap, fail or lose their caller.
THEOREM PeersTyped == Spec => []TypeOK
BY PeersInvAlways, PTL DEF PeersInv

\* Of any number of servers, two that found one another idle in activate or in
\* restore_state_from_summary are never both active.
THEOREM OneActive == Spec => []AtMostOneActive
<1>1. PeersInv => AtMostOneActive
  BY DEF PeersInv, Exclusion, Engaged, AtMostOneActive
<1> QED
  BY <1>1, PeersInvAlways, PTL

\* Whoever writes the state file, and in whatever order, a server that is up has
\* its key there or is about to write it (set_ingress_private_key).
THEOREM KeyNeverLost == Spec => []KeyInStateFile
<1>1. PeersInv => KeyInStateFile
  BY DEF PeersInv, KeySaved, Transfer, KeyInStateFile
<1> QED
  BY <1>1, PeersInvAlways, PTL

=============================================================================
