---------------------------- MODULE BridgeProofs ----------------------------
(***************************************************************************)
(* Proofs about the bridge under the MCP children, for any number of runs  *)
(* of the main process, of children and of calls: an answer belongs to its *)
(* call, no run handles a request twice, and a call fails for want of a    *)
(* connection only if there was reason to.                                 *)
(***************************************************************************)
EXTENDS McpServer, TLAPS

BridgeTypes ==
    /\ up \in [Servers -> {"off", "up", "closed", "owner", "gone"}]
    /\ link = [c \in Clients |-> link[c]]
    /\ call \in [Clients -> [stage : {"none", "connect", "stat", "send", "wait"},
                             try : 0..2, long : BOOLEAN]]
    /\ calls \in [Clients -> 0..MaxCalls]
    /\ orphans \subseteq Servers \X Clients \X (1..MaxCalls)
    /\ ran \in [Servers -> [Requests -> Nat]]
    /\ outcome \in [Clients -> [kind : {"none", "answer", "refused", "broken", "timeout"},
                                of : 0..MaxCalls]]
    /\ path \in Servers \cup {0}

\* A connection carries the request of the call in progress or its answer, and
\* nothing else; one that is open leads to a server that still reads.
Carries(l, waiting, n) ==
    /\ l = [srv |-> l.srv, ino |-> l.ino, open |-> l.open, req |-> l.req, cur |-> l.cur,
            rep |-> l.rep]
    /\ l.open \in BOOLEAN
    /\ l.open => l.srv \in Servers /\ up[l.srv] \in {"up", "closed"}
    /\ \/ l.req = <<>> /\ l.cur = 0 /\ l.rep = <<>> /\ (waiting => ~l.open)
       \/ waiting /\ l.open /\ l.req = <<n>> /\ l.cur = 0 /\ l.rep = <<>>
       \/ waiting /\ l.open /\ l.req = <<>> /\ l.cur = n /\ l.rep = <<>>
       \/ waiting /\ l.srv \in Servers /\ l.req = <<>> /\ l.cur = 0 /\ l.rep = <<n>>

LinkInv(c) ==
    /\ Carries(link[c], call[c].stage = "wait", calls[c])
    /\ call[c].stage # "none" => calls[c] > 0

\* The call in progress was handled where its connection leads.
Handled(c) == link[c].cur # 0 \/ link[c].rep # <<>>

\* No request runs twice, one that was given up may still run, and one that was
\* not made does not.
RunsOnce(c, s) ==
    \A m \in 1..MaxCalls :
        /\ ran[s][<<c, m>>] \in {0, 1}
        /\ <<s, c, m>> \in orphans => ran[s][<<c, m>>] = 0
        /\ m > calls[c] => ran[s][<<c, m>>] = 0 /\ <<s, c, m>> \notin orphans

\* A call in progress ran where it is connected to, or where all is gone.
RanBefore(c, s) ==
    call[c].stage # "none" =>
        /\ <<s, c, calls[c]>> \notin orphans
        /\ call[c].long => ran[s][<<c, calls[c]>>] = 0
        /\ \/ ran[s][<<c, calls[c]>>] = 0
           \/ up[s] = "gone"
           \/ link[c].srv = s /\ Handled(c)

RanHere(c, s) == Handled(c) /\ link[c].srv = s => ran[s][<<c, calls[c]>>] = 1

RanInv(c) == \A s \in Servers : RunsOnce(c, s) /\ RanBefore(c, s) /\ RanHere(c, s)

AnswerInv(c) ==
    outcome[c].kind = "answer" =>
        /\ calls[c] > 0 /\ outcome[c].of = calls[c]
        /\ \E s \in Servers : ran[s][<<c, calls[c]>>] > 0

ClientInv(c) == LinkInv(c) /\ RanInv(c) /\ AnswerInv(c)

BridgeInv == BridgeTypes /\ \A c \in Clients : ClientInv(c)

LEMMA Tuples ==
    ASSUME NEW n
    PROVE  /\ Head(<<n>>) = n /\ Tail(<<n>>) = <<>> /\ <<n>> # <<>>
           /\ Append(<<>>, n) = <<n>> /\ ToSet(<<n>>) = {n} /\ ToSet(<<>>) = {}
BY DEF ToSet

-----------------------------------------------------------------------------
(* The server.                                                             *)

\* Starting and stopping, as long as nobody is connected to what stops.
LEMMA UpStep ==
    ASSUME BridgeInv, NEW s \in Servers, NEW u \in {"up", "closed", "owner", "gone"},
           up' = [up EXCEPT ![s] = u], path' \in Servers \cup {0},
           UNCHANGED <<link, call, calls, orphans, ran, outcome>>,
           up[s] # "gone", u \in {"owner", "gone"} => LinkedTo(s) = {}
    PROVE  BridgeInv'
<1>1. BridgeTypes'
  BY DEF BridgeInv, BridgeTypes
<1>2. \A t \in Servers : /\ up[t] = "gone" => up'[t] = "gone"
                         /\ t # s => up'[t] = up[t]
                         /\ t = s => up'[t] = u
  BY DEF BridgeInv, BridgeTypes
<1>3. ASSUME NEW c \in Clients PROVE ClientInv(c)'
  <2>1. ClientInv(c)
    BY DEF BridgeInv
  <2>2. link[c].open => link[c].srv \in Servers /\ up'[link[c].srv] \in {"up", "closed"}
    BY <1>2, <2>1 DEF ClientInv, LinkInv, Carries, LinkedTo
  <2>3. LinkInv(c)'
    BY <2>1, <2>2 DEF ClientInv, LinkInv, Carries
  <2>4. RanInv(c)'
    BY <1>2, <2>1 DEF ClientInv, RanInv, RunsOnce, RanBefore, RanHere, Handled
  <2> QED
    BY <2>1, <2>3, <2>4 DEF ClientInv, AnswerInv
<1> QED
  BY <1>1, <1>3 DEF BridgeInv

LEMMA StartStep == ASSUME BridgeInv, NEW s \in Servers, StartServer(s) PROVE BridgeInv'
BY UpStep DEF StartServer

LEMMA CloseStep == ASSUME BridgeInv, NEW s \in Servers, CloseServer(s) PROVE BridgeInv'
BY UpStep DEF CloseServer, BridgeInv, BridgeTypes

LEMMA CheckStep == ASSUME BridgeInv, NEW s \in Servers, CheckFile(s) PROVE BridgeInv'
<1>1. up' = [up EXCEPT ![s] = IF OwnsFile(s) THEN "owner" ELSE "gone"]
  BY DEF CheckFile
<1> QED
  BY <1>1, UpStep DEF CheckFile, history, BridgeInv, BridgeTypes

LEMMA RemoveStep == ASSUME BridgeInv, NEW s \in Servers, RemoveFile(s) PROVE BridgeInv'
<1>1. LinkedTo(s) = {}
  BY DEF RemoveFile, BridgeInv, ClientInv, LinkInv, Carries, LinkedTo
<1> QED
  BY <1>1, UpStep DEF RemoveFile

LEMMA KillStep == ASSUME BridgeInv, NEW s \in Servers, KillServer(s) PROVE BridgeInv'
<1>1. /\ up' = [up EXCEPT ![s] = "gone"]
      /\ UNCHANGED <<path, call, calls, ran, outcome>>
      /\ orphans' \subseteq orphans
  BY DEF KillServer
<1>2. BridgeTypes'
  <2>1. link' = [c \in Clients |-> link'[c]]
    BY DEF KillServer
  <2> QED
    BY <1>1, <2>1 DEF BridgeInv, BridgeTypes
<1>3. \A t \in Servers : (t = s => up'[t] = "gone") /\ (t # s => up'[t] = up[t])
  BY <1>1 DEF BridgeInv, BridgeTypes
<1>4. ASSUME NEW c \in Clients PROVE ClientInv(c)'
  <2> USE DEF ClientInv
  <2>1. ClientInv(c)
    BY DEF BridgeInv
  <2>2. CASE c \in LinkedTo(s)
    <3>1. /\ link[c] = [srv |-> link[c].srv, ino |-> link[c].ino, open |-> link[c].open,
                        req |-> link[c].req, cur |-> link[c].cur, rep |-> link[c].rep]
          /\ link[c].srv = s
      BY <2>1, <2>2 DEF LinkInv, Carries, LinkedTo
    <3>2. link'[c] = [srv |-> s, ino |-> link[c].ino, open |-> FALSE, req |-> <<>>, cur |-> 0,
                      rep |-> link[c].rep]
      BY <2>2, <3>1 DEF KillServer
    <3>3. \/ link[c].rep = <<>>
          \/ call[c].stage = "wait" /\ link[c].rep = <<calls[c]>>
      BY <2>1 DEF LinkInv, Carries
    <3>4. LinkInv(c)'
      BY <1>1, <2>1, <3>1, <3>2, <3>3 DEF LinkInv, Carries
    <3>5. Handled(c)' => Handled(c)
      BY <3>2 DEF Handled
    <3>6. RanInv(c)'
      <4> SUFFICES ASSUME NEW q \in Servers
                   PROVE  RunsOnce(c, q)' /\ RanBefore(c, q)' /\ RanHere(c, q)'
        BY DEF RanInv
      <4>1. RunsOnce(c, q) /\ RanBefore(c, q) /\ RanHere(c, q)
        BY <2>1 DEF RanInv
      <4>2. link'[c].srv = s /\ link[c].srv = s
        BY <3>1, <3>2
      <4>3. RunsOnce(c, q)'
        BY <1>1, <4>1 DEF RunsOnce
      <4>4. RanBefore(c, q)'
        BY <1>1, <1>3, <4>1, <4>2 DEF RanBefore
      <4>5. RanHere(c, q)'
        BY <1>1, <3>5, <4>1, <4>2 DEF RanHere
      <4> QED
        BY <4>3, <4>4, <4>5
    <3> QED
      BY <1>1, <2>1, <3>4, <3>6 DEF AnswerInv
  <2>3. CASE c \notin LinkedTo(s)
    <3>1. link'[c] = link[c] /\ (link[c].open => link[c].srv # s)
      BY <2>3 DEF KillServer, LinkedTo
    <3>2. link[c].open => link[c].srv \in Servers /\ up'[link[c].srv] \in {"up", "closed"}
      BY <1>3, <2>1, <3>1 DEF LinkInv, Carries
    <3>3. LinkInv(c)'
      BY <1>1, <2>1, <3>1, <3>2 DEF LinkInv, Carries
    <3>4. Handled(c)' <=> Handled(c)
      BY <3>1 DEF Handled
    <3>5. \A t \in Servers : up[t] = "gone" => up'[t] = "gone"
      BY <1>3
    <3>6. RanInv(c)'
      BY <1>1, <2>1, <3>1, <3>4, <3>5 DEF RanInv, RunsOnce, RanBefore, RanHere
    <3> QED
      BY <1>1, <2>1, <3>3, <3>6 DEF AnswerInv
  <2> QED
    BY <2>2, <2>3
<1> QED
  BY <1>2, <1>4 DEF BridgeInv

-----------------------------------------------------------------------------
(* The clients.                                                            *)

\* A step for one client.
LEMMA OneClient ==
    ASSUME BridgeInv, NEW c \in Clients, BridgeTypes', ClientInv(c)', up' = up,
           \A d \in Clients \ {c} :
              /\ link'[d] = link[d] /\ call'[d] = call[d] /\ calls'[d] = calls[d]
              /\ outcome'[d] = outcome[d]
              /\ \A s \in Servers, m \in 1..MaxCalls :
                    /\ ran'[s][<<d, m>>] = ran[s][<<d, m>>]
                    /\ <<s, d, m>> \in orphans' <=> <<s, d, m>> \in orphans
    PROVE  BridgeInv'
<1> SUFFICES ASSUME NEW d \in Clients \ {c} PROVE ClientInv(d)'
  BY DEF BridgeInv
<1>1. ClientInv(d) /\ BridgeTypes
  BY DEF BridgeInv
<1>2. LinkInv(d)'
  BY <1>1 DEF ClientInv, LinkInv, Carries
<1>3. Handled(d)' <=> Handled(d)
  BY DEF Handled
<1>4. calls[d] \in 0..MaxCalls /\ MaxCalls \in Nat
  BY <1>1, BridgeAssumption DEF BridgeTypes
<1>5. RanInv(d)'
  <2> SUFFICES ASSUME NEW s \in Servers
               PROVE  RunsOnce(d, s)' /\ RanBefore(d, s)' /\ RanHere(d, s)'
    BY DEF RanInv
  <2>1. RunsOnce(d, s) /\ RanBefore(d, s) /\ RanHere(d, s)
    BY <1>1 DEF ClientInv, RanInv
  <2>2. RunsOnce(d, s)'
    BY <2>1 DEF RunsOnce
  <2>3. (call[d].stage # "none" \/ Handled(d)) => calls[d] \in 1..MaxCalls
    BY <1>1, <1>4 DEF ClientInv, LinkInv, Carries, Handled
  <2>4. RanBefore(d, s)'
    BY <1>3, <2>1, <2>3 DEF RanBefore
  <2>5. RanHere(d, s)'
    BY <1>3, <2>1, <2>3 DEF RanHere
  <2> QED
    BY <2>2, <2>4, <2>5
<1>6. AnswerInv(d)'
  <2> SUFFICES ASSUME outcome[d].kind = "answer" PROVE AnswerInv(d)'
    BY DEF AnswerInv
  <2>1. calls[d] \in 1..MaxCalls /\ outcome[d].of = calls[d]
    BY <1>1, <1>4 DEF ClientInv, AnswerInv
  <2>2. PICK s \in Servers : ran[s][<<d, calls[d]>>] > 0
    BY <1>1 DEF ClientInv, AnswerInv
  <2>3. ASSUME NEW m \in 1..MaxCalls PROVE ran'[s][<<d, m>>] = ran[s][<<d, m>>]
    OBVIOUS
  <2>4. ran'[s][<<d, calls[d]>>] = ran[s][<<d, calls[d]>>]
    BY <2>1, <2>3
  <2>5. calls[d] > 0
    BY <2>1, <1>4
  <2> QED
    BY <2>1, <2>2, <2>4, <2>5 DEF AnswerInv
<1> QED
  BY <1>2, <1>5, <1>6 DEF ClientInv

LEMMA Quiet ==
    ASSUME NEW c \in Clients, ClientInv(c), call[c].stage # "wait"
    PROVE  link[c].req = <<>> /\ link[c].cur = 0 /\ link[c].rep = <<>> /\ ~Handled(c)
BY DEF ClientInv, LinkInv, Carries, Handled

LEMMA NoLinkCarries == ASSUME NEW n PROVE Carries(NoLink, FALSE, n)
BY DEF Carries, NoLink

\* The call is made over the connection that is kept, or over a new one.
LEMMA BeginStep == ASSUME BridgeInv, NEW c \in Clients, BeginCall(c) PROVE BridgeInv'
<1>1. BridgeTypes /\ ClientInv(c) /\ call[c].stage = "none"
  BY DEF BridgeInv, BeginCall, NoCall
<1>2. PICK long \in BOOLEAN, keep \in BOOLEAN :
         /\ link' = IF keep THEN link ELSE [link EXCEPT ![c] = NoLink]
         /\ call' = [call EXCEPT ![c] =
                       [stage |-> IF keep THEN "send" ELSE "connect", try |-> 1, long |-> long]]
  BY DEF BeginCall
<1>3. /\ calls' = [calls EXCEPT ![c] = @ + 1] /\ calls[c] < MaxCalls
      /\ outcome' = [outcome EXCEPT ![c] = NoOutcome]
      /\ UNCHANGED <<path, up, orphans, ran>>
  BY DEF BeginCall, server
<1>4. MaxCalls \in Nat /\ calls[c] \in Nat
  BY <1>1, BridgeAssumption DEF BridgeTypes
<1>5. /\ calls'[c] = calls[c] + 1 /\ calls'[c] \in 1..MaxCalls
      /\ outcome'[c] = NoOutcome
      /\ call'[c].stage \in {"send", "connect"}
  BY <1>1, <1>2, <1>3, <1>4 DEF BridgeTypes
<1>6. BridgeTypes'
  <2>1. call' \in [Clients -> [stage : {"none", "connect", "stat", "send", "wait"},
                               try : 0..2, long : BOOLEAN]]
    BY <1>1, <1>2 DEF BridgeTypes
  <2>2. calls' \in [Clients -> 0..MaxCalls]
    BY <1>1, <1>3, <1>4 DEF BridgeTypes
  <2>3. outcome' \in [Clients -> [kind : {"none", "answer", "refused", "broken", "timeout"},
                                  of : 0..MaxCalls]]
    BY <1>1, <1>3, <1>4 DEF BridgeTypes, NoOutcome
  <2>4. link' = [d \in Clients |-> link'[d]]
    BY <1>1, <1>2 DEF BridgeTypes
  <2> QED
    BY <1>1, <1>3, <2>1, <2>2, <2>3, <2>4 DEF BridgeTypes
<1>7. link'[c] \in {link[c], NoLink}
  BY <1>1, <1>2 DEF BridgeTypes
<1>8. LinkInv(c)' /\ ~Handled(c)'
  <2>1. link'[c].req = <<>> /\ link'[c].cur = 0 /\ link'[c].rep = <<>>
    BY <1>1, <1>7, Quiet DEF NoLink
  <2> QED
    BY <1>1, <1>3, <1>5, <1>7, <2>1, NoLinkCarries DEF ClientInv, LinkInv, Carries, Handled
<1>9. RanInv(c)'
  <2> SUFFICES ASSUME NEW s \in Servers
               PROVE  RunsOnce(c, s)' /\ RanBefore(c, s)' /\ RanHere(c, s)'
    BY DEF RanInv
  <2>1. RunsOnce(c, s)
    BY <1>1 DEF ClientInv, RanInv
  <2>2. RunsOnce(c, s)'
    BY <1>3, <1>4, <1>5, <2>1 DEF RunsOnce
  <2>3. ran[s][<<c, calls'[c]>>] = 0 /\ <<s, c, calls'[c]>> \notin orphans
    BY <1>4, <1>5, <2>1 DEF RunsOnce
  <2> QED
    BY <1>3, <1>8, <2>2, <2>3 DEF RanBefore, RanHere
<1>10. AnswerInv(c)'
  BY <1>5 DEF AnswerInv, NoOutcome
<1>11. ClientInv(c)'
  BY <1>8, <1>9, <1>10 DEF ClientInv
<1> QED
  BY <1>1, <1>2, <1>3, <1>6, <1>11, OneClient DEF BridgeTypes

\* A step of a client that moves no request.
LEMMA NoRequestMoves ==
    ASSUME BridgeInv, NEW c \in Clients, BridgeTypes', LinkInv(c)',
           UNCHANGED <<up, calls, ran, orphans>>,
           \A d \in Clients \ {c} : /\ link'[d] = link[d] /\ call'[d] = call[d]
                                    /\ outcome'[d] = outcome[d],
           call[c].stage # "none", call'[c].stage # "none" => call'[c].long = call[c].long,
           Handled(c)' => Handled(c) /\ link'[c].srv = link[c].srv,
           call'[c].stage = "none" \/ (Handled(c) => Handled(c)' /\ link'[c].srv = link[c].srv),
           outcome'[c] = outcome[c] \/ outcome'[c].kind # "answer"
             \/ (outcome'[c].of = calls[c] /\ Handled(c) /\ link[c].srv \in Servers)
    PROVE  BridgeInv'
<1>1. ClientInv(c)
  BY DEF BridgeInv
<1>2. RanInv(c)'
  <2> SUFFICES ASSUME NEW s \in Servers
               PROVE  RunsOnce(c, s)' /\ RanBefore(c, s)' /\ RanHere(c, s)'
    BY DEF RanInv
  <2>1. RunsOnce(c, s) /\ RanBefore(c, s) /\ RanHere(c, s)
    BY <1>1 DEF ClientInv, RanInv
  <2>2. RunsOnce(c, s)'
    BY <2>1 DEF RunsOnce
  <2>3. RanBefore(c, s)'
    BY <2>1 DEF RanBefore
  <2>4. RanHere(c, s)'
    BY <2>1 DEF RanHere
  <2> QED
    BY <2>2, <2>3, <2>4
<1>3. AnswerInv(c)'
  <2> SUFFICES ASSUME outcome'[c].kind = "answer" PROVE AnswerInv(c)'
    BY DEF AnswerInv
  <2>1. CASE outcome'[c] = outcome[c]
    BY <1>1, <2>1 DEF ClientInv, AnswerInv
  <2>2. CASE outcome'[c].of = calls[c] /\ Handled(c) /\ link[c].srv \in Servers
    <3>1. ran[link[c].srv][<<c, calls[c]>>] = 1 /\ calls[c] > 0
      BY <1>1, <2>2 DEF ClientInv, LinkInv, RanInv, RanHere
    <3> QED
      BY <2>2, <3>1 DEF AnswerInv
  <2> QED
    BY <2>1, <2>2
<1> QED
  BY <1>2, <1>3, OneClient DEF ClientInv

LEMMA ConnectStep == ASSUME BridgeInv, NEW c \in Clients, Connect(c) PROVE BridgeInv'
<1>1. BridgeTypes /\ ClientInv(c) /\ call[c].stage = "connect"
  BY DEF BridgeInv, Connect
<1>2. link[c].req = <<>> /\ link[c].cur = 0 /\ link[c].rep = <<>> /\ ~Handled(c)
  BY <1>1, Quiet
<1>3. UNCHANGED <<path, up, calls, orphans, ran>>
  BY DEF Connect, server
<1>4. calls[c] > 0 /\ calls[c] \in 0..MaxCalls
  BY <1>1 DEF ClientInv, LinkInv, BridgeTypes
<1>5. CASE Reachable
  <2>1. /\ link' = [link EXCEPT ![c] = [NoLink EXCEPT !.srv = path, !.open = TRUE]]
        /\ call' = [call EXCEPT ![c].stage = "stat"]
        /\ outcome' = outcome
    BY <1>5 DEF Connect
  <2>2. BridgeTypes'
    BY <1>1, <1>3, <2>1 DEF BridgeTypes
  <2>3. link'[c] = [srv |-> path, ino |-> 0, open |-> TRUE, req |-> <<>>, cur |-> 0, rep |-> <<>>]
    BY <1>1, <2>1 DEF BridgeTypes, NoLink
  <2>4. call'[c].stage = "stat" /\ call'[c].long = call[c].long
    BY <1>1, <2>1 DEF BridgeTypes
  <2>5. path \in Servers /\ up[path] = "up"
    BY <1>1, <1>5 DEF Reachable, BridgeTypes
  <2>6. LinkInv(c)' /\ ~Handled(c)'
    BY <1>3, <1>4, <2>3, <2>4, <2>5 DEF LinkInv, Carries, Handled
  <2>7. \A d \in Clients \ {c} : link'[d] = link[d] /\ call'[d] = call[d]
    BY <1>1, <2>1 DEF BridgeTypes
  <2> QED
    BY <1>1, <1>2, <1>3, <2>1, <2>2, <2>4, <2>6, <2>7, NoRequestMoves
<1>6. CASE ~Reachable
  <2>1. /\ call' = [call EXCEPT ![c] = NoCall]
        /\ outcome' = [outcome EXCEPT ![c] = [kind |-> "refused", of |-> calls[c]]]
        /\ link' = link
    BY <1>6 DEF Connect, EndCall
  <2>2. BridgeTypes'
    BY <1>1, <1>3, <1>4, <2>1 DEF BridgeTypes, NoCall
  <2>3. call'[c].stage = "none" /\ outcome'[c].kind = "refused"
    BY <1>1, <2>1 DEF BridgeTypes, NoCall
  <2>4. LinkInv(c)' /\ ~Handled(c)'
    BY <1>1, <1>2, <1>3, <2>1, <2>3 DEF ClientInv, LinkInv, Carries, Handled
  <2>5. \A d \in Clients \ {c} : call'[d] = call[d] /\ outcome'[d] = outcome[d]
    BY <1>1, <2>1 DEF BridgeTypes
  <2> QED
    BY <1>1, <1>2, <1>3, <2>1, <2>2, <2>3, <2>4, <2>5, NoRequestMoves
<1> QED
  BY <1>5, <1>6

LEMMA RecordStep == ASSUME BridgeInv, NEW c \in Clients, RecordInode(c) PROVE BridgeInv'
<1>1. BridgeTypes /\ ClientInv(c) /\ call[c].stage = "stat"
  BY DEF BridgeInv, RecordInode
<1>2. link[c].req = <<>> /\ link[c].cur = 0 /\ link[c].rep = <<>> /\ ~Handled(c)
  BY <1>1, Quiet
<1>3. UNCHANGED <<path, up, calls, orphans, ran, outcome>>
  BY DEF RecordInode, server, history
<1>4. PICK i : link' = [link EXCEPT ![c].ino = i] /\ call' = [call EXCEPT ![c].stage = "send"]
  BY DEF RecordInode
<1>5. BridgeTypes'
  BY <1>1, <1>3, <1>4 DEF BridgeTypes
<1>6. link'[c] = [link[c] EXCEPT !.ino = i]
  BY <1>1, <1>4 DEF BridgeTypes
<1>7. call'[c].stage = "send" /\ call'[c].long = call[c].long
  BY <1>1, <1>4 DEF BridgeTypes
<1>8. link[c] = [srv |-> link[c].srv, ino |-> link[c].ino, open |-> link[c].open,
                 req |-> link[c].req, cur |-> link[c].cur, rep |-> link[c].rep]
  BY <1>1 DEF ClientInv, LinkInv, Carries
<1>9. link'[c] = [srv |-> link[c].srv, ino |-> i, open |-> link[c].open, req |-> <<>>,
                  cur |-> 0, rep |-> <<>>]
  BY <1>2, <1>6, <1>8
<1>10. LinkInv(c)' /\ ~Handled(c)'
  BY <1>1, <1>3, <1>7, <1>9 DEF ClientInv, LinkInv, Carries, Handled
<1>11. \A d \in Clients \ {c} : link'[d] = link[d] /\ call'[d] = call[d]
  BY <1>1, <1>4 DEF BridgeTypes
<1> QED
  BY <1>1, <1>2, <1>3, <1>5, <1>7, <1>10, <1>11, NoRequestMoves

LEMMA SendStep == ASSUME BridgeInv, NEW c \in Clients, Send(c) PROVE BridgeInv'
<1>1. BridgeTypes /\ ClientInv(c) /\ call[c].stage = "send" /\ link[c].open
  BY DEF BridgeInv, Send
<1>2. link[c].req = <<>> /\ link[c].cur = 0 /\ link[c].rep = <<>> /\ ~Handled(c)
  BY <1>1, Quiet
<1>3. UNCHANGED <<path, up, calls, orphans, ran, outcome>>
  BY DEF Send, server, history
<1>4. /\ link' = [link EXCEPT ![c].req = Append(@, calls[c])]
      /\ call' = [call EXCEPT ![c].stage = "wait"]
  BY DEF Send
<1>5. BridgeTypes'
  BY <1>1, <1>3, <1>4 DEF BridgeTypes
<1>6. link'[c] = [link[c] EXCEPT !.req = <<calls[c]>>]
  BY <1>1, <1>2, <1>4, Tuples DEF BridgeTypes
<1>7. call'[c].stage = "wait" /\ call'[c].long = call[c].long
  BY <1>1, <1>4 DEF BridgeTypes
<1>8. link[c] = [srv |-> link[c].srv, ino |-> link[c].ino, open |-> link[c].open,
                 req |-> link[c].req, cur |-> link[c].cur, rep |-> link[c].rep]
  BY <1>1 DEF ClientInv, LinkInv, Carries
<1>9. link'[c] = [srv |-> link[c].srv, ino |-> link[c].ino, open |-> TRUE, req |-> <<calls[c]>>,
                  cur |-> 0, rep |-> <<>>]
  BY <1>1, <1>2, <1>6, <1>8 DEF ClientInv, LinkInv, Carries
<1>10. LinkInv(c)' /\ ~Handled(c)'
  BY <1>1, <1>3, <1>7, <1>9 DEF ClientInv, LinkInv, Carries, Handled
<1>11. \A d \in Clients \ {c} : link'[d] = link[d] /\ call'[d] = call[d]
  BY <1>1, <1>4 DEF BridgeTypes
<1> QED
  BY <1>1, <1>2, <1>3, <1>5, <1>7, <1>10, <1>11, NoRequestMoves

LEMMA ReceiveStep == ASSUME BridgeInv, NEW c \in Clients, Receive(c) PROVE BridgeInv'
<1>1. BridgeTypes /\ ClientInv(c) /\ call[c].stage = "wait" /\ link[c].rep # <<>>
  BY DEF BridgeInv, Receive
<1>2. /\ link[c].req = <<>> /\ link[c].cur = 0 /\ link[c].rep = <<calls[c]>>
      /\ link[c].srv \in Servers /\ Handled(c)
  BY <1>1 DEF ClientInv, LinkInv, Carries, Handled
<1>3. UNCHANGED <<path, up, calls, orphans, ran>>
  BY DEF Receive, server
<1>4. /\ link' = [link EXCEPT ![c].rep = <<>>]
      /\ call' = [call EXCEPT ![c] = NoCall]
      /\ outcome' = [outcome EXCEPT ![c] = [kind |-> "answer", of |-> calls[c]]]
  BY <1>2, Tuples DEF Receive, EndCall
<1>5. BridgeTypes'
  <2>1. call' \in [Clients -> [stage : {"none", "connect", "stat", "send", "wait"},
                               try : 0..2, long : BOOLEAN]]
    BY <1>1, <1>4 DEF BridgeTypes, NoCall
  <2>2. outcome' \in [Clients -> [kind : {"none", "answer", "refused", "broken", "timeout"},
                                  of : 0..MaxCalls]]
    BY <1>1, <1>4 DEF BridgeTypes
  <2>3. link' = [d \in Clients |-> link'[d]]
    BY <1>1, <1>4 DEF BridgeTypes
  <2> QED
    BY <1>1, <1>3, <2>1, <2>2, <2>3 DEF BridgeTypes
<1>6. /\ call'[c].stage = "none" /\ outcome'[c].of = calls[c]
      /\ link'[c] = [link[c] EXCEPT !.rep = <<>>]
  BY <1>1, <1>4 DEF BridgeTypes, NoCall
<1>7. link[c] = [srv |-> link[c].srv, ino |-> link[c].ino, open |-> link[c].open,
                 req |-> link[c].req, cur |-> link[c].cur, rep |-> link[c].rep]
  BY <1>1 DEF ClientInv, LinkInv, Carries
<1>8. link'[c] = [srv |-> link[c].srv, ino |-> link[c].ino, open |-> link[c].open,
                  req |-> <<>>, cur |-> 0, rep |-> <<>>]
  BY <1>2, <1>6, <1>7
<1>9. LinkInv(c)' /\ ~Handled(c)'
  BY <1>1, <1>3, <1>6, <1>8 DEF ClientInv, LinkInv, Carries, Handled
<1>10. \A d \in Clients \ {c} : /\ link'[d] = link[d] /\ call'[d] = call[d]
                                /\ outcome'[d] = outcome[d]
  BY <1>1, <1>4 DEF BridgeTypes
<1> QED
  BY <1>1, <1>2, <1>3, <1>5, <1>6, <1>9, <1>10, NoRequestMoves

\* A call that gets no answer.  What is given up was not read, so it has not run.
LEMMA FailedStep ==
    ASSUME BridgeInv, NEW c \in Clients, NEW kind \in {"broken", "timeout"}, Failed(c, kind),
           call[c].stage \in {"send", "wait"}, link[c].rep = <<>>,
           kind = "broken" => ~link[c].open
    PROVE  BridgeInv'
<1>1. BridgeTypes /\ ClientInv(c)
  BY DEF BridgeInv
<1>2. /\ UNCHANGED <<path, up, calls, ran>>
      /\ link' = [link EXCEPT ![c] = NoLink]
  BY DEF Failed, Dropped, Unlinked, server
<1>3. calls[c] > 0 /\ calls[c] \in 0..MaxCalls /\ MaxCalls \in Nat
  BY <1>1, BridgeAssumption DEF ClientInv, LinkInv, BridgeTypes
<1>4. calls[c] \in 1..MaxCalls
  BY <1>3
<1>5. /\ \/ call' = [call EXCEPT ![c] = NoCall] /\ call'[c] = NoCall
         \/ /\ kind = "broken" /\ call'[c].stage = "connect" /\ call'[c].long = call[c].long
            /\ call' = [call EXCEPT ![c].stage = "connect", ![c].try = 2]
      /\ \/ outcome' = outcome
         \/ outcome' = [outcome EXCEPT ![c] = [kind |-> kind, of |-> calls[c]]]
  <2>1. CASE SentAgain(c, kind)
    <3>1. /\ call' = [call EXCEPT ![c].stage = "connect", ![c].try = 2]
          /\ outcome' = outcome /\ kind = "broken"
      BY <2>1 DEF Failed, SentAgain
    <3>2. call'[c].stage = "connect" /\ call'[c].long = call[c].long
      BY <1>1, <3>1 DEF BridgeTypes
    <3> QED
      BY <3>1, <3>2
  <2>2. CASE ~SentAgain(c, kind)
    <3>1. /\ call' = [call EXCEPT ![c] = NoCall]
          /\ outcome' = [outcome EXCEPT ![c] = [kind |-> kind, of |-> calls[c]]]
      BY <2>2 DEF Failed, EndCall
    <3>2. call'[c] = NoCall
      BY <1>1, <3>1 DEF BridgeTypes
    <3> QED
      BY <3>1, <3>2
  <2> QED
    BY <2>1, <2>2
<1>6. \/ orphans' = orphans
      \/ /\ orphans' = orphans \cup {<<link[c].srv, c, calls[c]>>}
         /\ link[c].open /\ ~Handled(c) /\ call'[c].stage = "none" /\ ~call[c].long
         /\ link[c].srv \in Servers /\ up[link[c].srv] # "gone"
  <2>1. CASE link[c].open /\ ~call[c].long
    <3>1. orphans' = orphans \cup {<<link[c].srv, c, n>> : n \in ToSet(link[c].req)}
      BY <2>1 DEF Failed, Dropped, Unlinked
    <3>2. call'[c].stage = "none"
      BY <1>5, <2>1 DEF NoCall
    <3>3. CASE link[c].req = <<>>
      BY <3>1, <3>3, Tuples
    <3>4. CASE link[c].req # <<>>
      <4>1. /\ link[c].req = <<calls[c]>> /\ ~Handled(c) /\ link[c].srv \in Servers
            /\ up[link[c].srv] \in {"up", "closed"}
        BY <1>1, <2>1, <3>4 DEF ClientInv, LinkInv, Carries, Handled
      <4>2. ToSet(link[c].req) = {calls[c]}
        BY <4>1, Tuples
      <4> QED
        BY <2>1, <3>1, <3>2, <4>1, <4>2
    <3> QED
      BY <3>3, <3>4
  <2>2. CASE ~(link[c].open /\ ~call[c].long)
    BY <2>2 DEF Failed, Dropped, Unlinked
  <2> QED
    BY <2>1, <2>2
<1>7. BridgeTypes'
  <2>1. call' \in [Clients -> [stage : {"none", "connect", "stat", "send", "wait"},
                               try : 0..2, long : BOOLEAN]]
    <3>1. CASE call' = [call EXCEPT ![c] = NoCall]
      BY <1>1, <3>1 DEF BridgeTypes, NoCall
    <3>2. CASE call' = [call EXCEPT ![c].stage = "connect", ![c].try = 2]
      <4>1. call'[c] = [stage |-> "connect", try |-> 2, long |-> call[c].long]
        BY <1>1, <3>2 DEF BridgeTypes
      <4>2. \A d \in Clients \ {c} : call'[d] = call[d]
        BY <1>1, <3>2 DEF BridgeTypes
      <4>3. call' = [d \in Clients |-> call'[d]]
        BY <1>1, <3>2 DEF BridgeTypes
      <4>4. call[c].long \in BOOLEAN
        BY <1>1 DEF BridgeTypes
      <4>5. call'[c] \in [stage : {"none", "connect", "stat", "send", "wait"},
                          try : 0..2, long : BOOLEAN]
        BY <4>1, <4>4
      <4>6. \A d \in Clients \ {c} :
               call'[d] \in [stage : {"none", "connect", "stat", "send", "wait"},
                             try : 0..2, long : BOOLEAN]
        BY <1>1, <4>2 DEF BridgeTypes
      <4> QED
        BY <4>3, <4>5, <4>6
    <3> QED
      BY <1>5, <3>1, <3>2
  <2>2. outcome' \in [Clients -> [kind : {"none", "answer", "refused", "broken", "timeout"},
                                  of : 0..MaxCalls]]
    <3>1. CASE outcome' = [outcome EXCEPT ![c] = [kind |-> kind, of |-> calls[c]]]
      BY <1>1, <1>3, <3>1 DEF BridgeTypes
    <3> QED
      BY <1>1, <1>5, <3>1 DEF BridgeTypes
  <2>3. orphans' \subseteq Servers \X Clients \X (1..MaxCalls)
    BY <1>1, <1>4, <1>6 DEF BridgeTypes
  <2>4. link' = [d \in Clients |-> link'[d]]
    BY <1>1, <1>2 DEF BridgeTypes
  <2> QED
    BY <1>1, <1>2, <2>1, <2>2, <2>3, <2>4 DEF BridgeTypes
<1>8. link'[c] = NoLink
  BY <1>1, <1>2 DEF BridgeTypes
<1>9. LinkInv(c)' /\ ~Handled(c)'
  <2>1. call'[c].stage # "wait"
    BY <1>5 DEF NoCall
  <2> QED
    BY <1>2, <1>3, <1>8, <2>1, NoLinkCarries DEF LinkInv, Carries, Handled, NoLink
<1>10. RanInv(c)'
  <2> SUFFICES ASSUME NEW s \in Servers
               PROVE  RunsOnce(c, s)' /\ RanBefore(c, s)' /\ RanHere(c, s)'
    BY DEF RanInv
  <2>1. RunsOnce(c, s) /\ RanBefore(c, s)
    BY <1>1 DEF ClientInv, RanInv
  <2>2. RunsOnce(c, s)'
    <3> SUFFICES ASSUME NEW m \in 1..MaxCalls
                 PROVE  /\ ran[s][<<c, m>>] \in {0, 1}
                        /\ <<s, c, m>> \in orphans' => ran[s][<<c, m>>] = 0
                        /\ m > calls[c] => ran[s][<<c, m>>] = 0 /\ <<s, c, m>> \notin orphans'
      BY <1>2 DEF RunsOnce
    <3>1. /\ ran[s][<<c, m>>] \in {0, 1}
          /\ <<s, c, m>> \in orphans => ran[s][<<c, m>>] = 0
          /\ m > calls[c] => ran[s][<<c, m>>] = 0 /\ <<s, c, m>> \notin orphans
      BY <2>1 DEF RunsOnce
    <3>2. CASE <<s, c, m>> \in orphans' \ orphans
      <4>1. s = link[c].srv /\ m = calls[c] /\ ~Handled(c) /\ up[s] # "gone"
        BY <1>6, <3>2
      <4>2. ran[s][<<c, m>>] = 0
        BY <2>1, <4>1 DEF RanBefore
      <4> QED
        BY <1>3, <4>1, <4>2
    <3> QED
      BY <1>6, <3>1, <3>2
  <2>3. RanBefore(c, s)'
    <3> SUFFICES ASSUME call'[c].stage # "none" PROVE RanBefore(c, s)'
      BY DEF RanBefore
    <3>1. ~link[c].open /\ orphans' = orphans /\ call'[c].long = call[c].long
      BY <1>5, <1>6 DEF NoCall
    <3>2. ~Handled(c)
      BY <1>1, <3>1 DEF ClientInv, LinkInv, Carries, Handled
    <3> QED
      BY <1>2, <2>1, <3>1, <3>2 DEF RanBefore
  <2> QED
    BY <1>9, <2>2, <2>3 DEF RanHere
<1>11. AnswerInv(c)'
  <2>1. outcome'[c] = outcome[c] \/ outcome'[c].kind = kind
    BY <1>1, <1>5 DEF BridgeTypes
  <2> QED
    BY <1>1, <1>2, <2>1 DEF ClientInv, AnswerInv
<1>12. ASSUME NEW d \in Clients \ {c}
       PROVE  /\ link'[d] = link[d] /\ call'[d] = call[d] /\ outcome'[d] = outcome[d]
              /\ \A s \in Servers, m \in 1..MaxCalls :
                    <<s, d, m>> \in orphans' <=> <<s, d, m>> \in orphans
  BY <1>1, <1>2, <1>5, <1>6 DEF BridgeTypes
<1> QED
  BY <1>2, <1>7, <1>9, <1>10, <1>11, <1>12, OneClient DEF ClientInv

-----------------------------------------------------------------------------
(* The requests.                                                           *)

\* Request m of client c runs for the first time on server s, and what that means.
FirstRun(s, c, m) == ran' = [ran EXCEPT ![s] = [ran[s] EXCEPT ![<<c, m>>] = 1]]
RanNow(s, c, m) ==
    /\ ran' \in [Servers -> [Requests -> Nat]]
    /\ \A t \in Servers, d \in Clients, k \in 1..MaxCalls :
          ran'[t][<<d, k>>] = IF t = s /\ d = c /\ k = m THEN 1 ELSE ran[t][<<d, k>>]

LEMMA Runs ==
    ASSUME BridgeTypes, NEW s \in Servers, NEW c \in Clients, NEW m \in 1..MaxCalls,
           FirstRun(s, c, m)
    PROVE  RanNow(s, c, m)
<1>1. <<c, m>> \in Requests
  BY DEF Requests
<1>2. ran \in [Servers -> [Requests -> Nat]]
  BY DEF BridgeTypes
<1>3. [ran[s] EXCEPT ![<<c, m>>] = 1] \in [Requests -> Nat]
  BY <1>1, <1>2
<1>4. ASSUME NEW t \in Servers, NEW d \in Clients, NEW k \in 1..MaxCalls
      PROVE  ran'[t][<<d, k>>] = IF t = s /\ d = c /\ k = m THEN 1 ELSE ran[t][<<d, k>>]
  <2>1. <<d, k>> \in Requests /\ (<<d, k>> = <<c, m>> <=> d = c /\ k = m)
    BY DEF Requests
  <2> QED
    BY <1>1, <1>2, <2>1 DEF FirstRun
<1>5. ran' \in [Servers -> [Requests -> Nat]]
  BY <1>2, <1>3 DEF FirstRun
<1> QED
  BY <1>4, <1>5 DEF RanNow

LinkIs(l, srv, ino, open, req, cur, rep) ==
    l = [srv |-> srv, ino |-> ino, open |-> open, req |-> req, cur |-> cur, rep |-> rep]

LEMMA Taken ==
    ASSUME NEW l, NEW k, NEW s, NEW i, NEW n, LinkIs(l, s, i, TRUE, <<n>>, 0, <<>>),
           k = [l EXCEPT !.req = <<>>, !.cur = n]
    PROVE  LinkIs(k, s, i, TRUE, <<>>, n, <<>>)
BY DEF LinkIs

LEMMA ReadRequestStep == ASSUME BridgeInv, NEW c \in Clients, ReadRequest(c) PROVE BridgeInv'
<1> DEFINE s == link[c].srv
           n == calls[c]
<1>1. BridgeTypes /\ ClientInv(c) /\ link[c].open /\ link[c].cur = 0 /\ link[c].req # <<>>
  BY DEF BridgeInv, ReadRequest
<1>2. /\ call[c].stage = "wait" /\ link[c].req = <<n>> /\ link[c].rep = <<>> /\ ~Handled(c)
      /\ s \in Servers /\ up[s] \in {"up", "closed"} /\ n > 0
  BY <1>1 DEF ClientInv, LinkInv, Carries, Handled
<1>3. Head(link[c].req) = n /\ Tail(link[c].req) = <<>>
  BY <1>2, Tuples
<1>4. UNCHANGED <<path, up, call, calls, orphans, outcome>>
  BY DEF ReadRequest, server
<1>5. link[c] = [srv |-> s, ino |-> link[c].ino, open |-> TRUE, req |-> <<n>>, cur |-> 0,
                 rep |-> <<>>]
  BY <1>1, <1>2 DEF ClientInv, LinkInv, Carries
<1>6. MaxCalls \in Nat /\ n \in 1..MaxCalls
  BY <1>1, <1>2, BridgeAssumption DEF BridgeTypes
<1>7. CASE call[c].long
  <2>1. link' = [link EXCEPT ![c].open = FALSE, ![c].req = <<>>] /\ ran' = ran
    BY <1>3, <1>7 DEF ReadRequest
  <2>2. link'[c] = [srv |-> s, ino |-> link[c].ino, open |-> FALSE, req |-> <<>>, cur |-> 0,
                    rep |-> <<>>]
    <3>1. DOMAIN link = Clients
      BY <1>1 DEF BridgeTypes
    <3> QED
      BY <1>5, <2>1, <3>1
  <2>3. BridgeTypes'
    BY <1>1, <1>4, <2>1 DEF BridgeTypes
  <2>4. LinkInv(c)' /\ ~Handled(c)'
    BY <1>2, <1>4, <2>2 DEF LinkInv, Carries, Handled
  <2>5. \A d \in Clients \ {c} : link'[d] = link[d]
    BY <1>1, <2>1 DEF BridgeTypes
  <2> QED
    BY <1>2, <1>4, <2>1, <2>3, <2>4, <2>5, NoRequestMoves
<1>8. CASE ~call[c].long
  <2>1. /\ link' = [link EXCEPT ![c].req = <<>>, ![c].cur = n]
        /\ ran' = [ran EXCEPT ![s][<<c, n>>] = @ + 1]
    <3>1. /\ link' = [link EXCEPT ![c].req = Tail(@), ![c].cur = n]
          /\ ran' = [ran EXCEPT ![s][<<c, n>>] = @ + 1]
      BY <1>3, <1>8 DEF ReadRequest
    <3> QED
      BY <1>1, <1>3, <3>1 DEF BridgeTypes
  <2>2. link'[c] = [srv |-> s, ino |-> link[c].ino, open |-> TRUE, req |-> <<>>, cur |-> n,
                    rep |-> <<>>]
    <3>1. link'[c] = [link[c] EXCEPT !.req = <<>>, !.cur = n]
      BY <1>1, <2>1 DEF BridgeTypes
    <3>2. LinkIs(link[c], s, link[c].ino, TRUE, <<n>>, 0, <<>>)
      BY <1>5 DEF LinkIs
    <3>3. LinkIs(link'[c], s, link[c].ino, TRUE, <<>>, n, <<>>)
      BY <3>1, <3>2, Taken
    <3> QED
      BY <3>3 DEF LinkIs
  <2>3. ran[s][<<c, n>>] = 0
    BY <1>1, <1>2 DEF ClientInv, RanInv, RanBefore
  <2>4. /\ ran' \in [Servers -> [Requests -> Nat]]
        /\ \A t \in Servers, d \in Clients, k \in 1..MaxCalls :
              ran'[t][<<d, k>>] = IF t = s /\ d = c /\ k = n THEN 1 ELSE ran[t][<<d, k>>]
    <3>1. <<c, n>> \in Requests
      BY <1>6 DEF Requests
    <3>2. FirstRun(s, c, n)
      BY <1>1, <1>2, <2>1, <2>3, <3>1 DEF BridgeTypes, FirstRun
    <3>3. RanNow(s, c, n)
      BY <1>1, <1>2, <1>6, <3>2, Runs
    <3> QED
      BY <3>3 DEF RanNow
  <2>5. BridgeTypes'
    <3>1. link' = [d \in Clients |-> link'[d]]
      BY <1>1, <2>1 DEF BridgeTypes
    <3> QED
      BY <1>1, <1>4, <2>4, <3>1 DEF BridgeTypes
  <2>6. LinkInv(c)'
    BY <1>2, <1>4, <2>2 DEF LinkInv, Carries
  <2>7. RanInv(c)'
    <3> SUFFICES ASSUME NEW t \in Servers
                 PROVE  RunsOnce(c, t)' /\ RanBefore(c, t)' /\ RanHere(c, t)'
      BY DEF RanInv
    <3>1. RunsOnce(c, t) /\ RanBefore(c, t)
      BY <1>1 DEF ClientInv, RanInv
    <3>2. <<t, c, n>> \notin orphans
      BY <1>2, <3>1 DEF RanBefore
    <3>3. RunsOnce(c, t)'
      <4> SUFFICES ASSUME NEW k \in 1..MaxCalls
                   PROVE  /\ ran'[t][<<c, k>>] \in {0, 1}
                          /\ <<t, c, k>> \in orphans => ran'[t][<<c, k>>] = 0
                          /\ k > n => ran'[t][<<c, k>>] = 0 /\ <<t, c, k>> \notin orphans
        BY <1>4 DEF RunsOnce
      <4>1. /\ ran[t][<<c, k>>] \in {0, 1}
            /\ <<t, c, k>> \in orphans => ran[t][<<c, k>>] = 0
            /\ k > n => ran[t][<<c, k>>] = 0 /\ <<t, c, k>> \notin orphans
        BY <3>1 DEF RunsOnce
      <4>2. ran'[t][<<c, k>>] = IF t = s /\ k = n THEN 1 ELSE ran[t][<<c, k>>]
        BY <2>4
      <4>3. CASE t = s /\ k = n
        BY <1>6, <3>2, <4>2, <4>3
      <4>4. CASE ~(t = s /\ k = n)
        BY <4>1, <4>2, <4>4
      <4> QED
        BY <4>3, <4>4
    <3>4. ran'[t][<<c, n>>] = IF t = s THEN 1 ELSE ran[t][<<c, n>>]
      BY <1>6, <2>4
    <3>5. link'[c].srv = s /\ link'[c].cur = n /\ n # 0
      BY <1>2, <2>2
    <3>6. RanBefore(c, t)'
      BY <1>2, <1>4, <1>8, <3>1, <3>2, <3>4, <3>5 DEF RanBefore, Handled
    <3> QED
      BY <1>4, <3>3, <3>4, <3>5, <3>6 DEF RanHere
  <2>8. AnswerInv(c)'
    <3> SUFFICES ASSUME outcome[c].kind = "answer" PROVE AnswerInv(c)'
      BY <1>4 DEF AnswerInv
    <3>1. ran'[s][<<c, n>>] = 1
      BY <1>2, <1>6, <2>4
    <3> QED
      BY <1>1, <1>2, <1>4, <3>1 DEF ClientInv, AnswerInv
  <2>9. \A d \in Clients \ {c} :
           /\ link'[d] = link[d]
           /\ \A t \in Servers, k \in 1..MaxCalls : ran'[t][<<d, k>>] = ran[t][<<d, k>>]
    BY <1>1, <2>1, <2>4 DEF BridgeTypes
  <2> QED
    BY <1>4, <2>5, <2>6, <2>7, <2>8, <2>9, OneClient DEF ClientInv
<1> QED
  BY <1>7, <1>8

LEMMA AnswerStep == ASSUME BridgeInv, NEW c \in Clients, AnswerRequest(c) PROVE BridgeInv'
<1>1. BridgeTypes /\ ClientInv(c) /\ link[c].open /\ link[c].cur # 0
  BY DEF BridgeInv, AnswerRequest
<1>2. /\ call[c].stage = "wait" /\ link[c].req = <<>> /\ link[c].cur = calls[c]
      /\ link[c].rep = <<>> /\ Handled(c) /\ link[c].srv \in Servers
  BY <1>1 DEF ClientInv, LinkInv, Carries, Handled
<1>3. UNCHANGED <<path, up, call, calls, orphans, ran, outcome>>
  BY DEF AnswerRequest, server, history
<1>4. link' = [link EXCEPT ![c].cur = 0, ![c].rep = <<calls[c]>>]
  <2>1. link' = [link EXCEPT ![c].cur = 0, ![c].rep = Append(@, calls[c])]
    BY <1>2 DEF AnswerRequest
  <2> QED
    BY <1>1, <1>2, <2>1, Tuples DEF BridgeTypes
<1>5. link[c] = [srv |-> link[c].srv, ino |-> link[c].ino, open |-> TRUE, req |-> <<>>,
                 cur |-> calls[c], rep |-> <<>>]
  BY <1>1, <1>2 DEF ClientInv, LinkInv, Carries
<1>6. link'[c] = [srv |-> link[c].srv, ino |-> link[c].ino, open |-> TRUE, req |-> <<>>,
                  cur |-> 0, rep |-> <<calls[c]>>]
  <2>1. DOMAIN link = Clients
    BY <1>1 DEF BridgeTypes
  <2> QED
    BY <1>4, <1>5, <2>1
<1>7. BridgeTypes'
  BY <1>1, <1>3, <1>4 DEF BridgeTypes
<1>8. LinkInv(c)' /\ Handled(c)'
  BY <1>1, <1>2, <1>3, <1>6, Tuples DEF ClientInv, LinkInv, Carries, Handled
<1>9. \A d \in Clients \ {c} : link'[d] = link[d]
  BY <1>1, <1>4 DEF BridgeTypes
<1> QED
  BY <1>2, <1>3, <1>6, <1>7, <1>8, <1>9, NoRequestMoves

\* A request that was given up is not that of the call in progress.
LEMMA OrphanStep == ASSUME BridgeInv, NEW o \in orphans, RunOrphan(o) PROVE BridgeInv'
<1>1. BridgeTypes
  BY DEF BridgeInv
<1>2. PICK s \in Servers, c \in Clients, m \in 1..MaxCalls : o = <<s, c, m>>
  BY <1>1 DEF BridgeTypes
<1>3. ClientInv(c)
  BY DEF BridgeInv
<1>4. /\ UNCHANGED <<path, up, link, call, calls, outcome>>
      /\ orphans' = orphans \ {<<s, c, m>>} /\ <<s, c, m>> \in orphans
      /\ ran' = [ran EXCEPT ![s][<<c, m>>] = @ + 1]
  BY <1>2 DEF RunOrphan, server
<1>5. /\ ran[s][<<c, m>>] = 0
      /\ call[c].stage # "none" => m # calls[c]
      /\ ~(m > calls[c])
  BY <1>3, <1>4 DEF ClientInv, RanInv, RunsOnce, RanBefore
<1>6. /\ ran' \in [Servers -> [Requests -> Nat]]
      /\ \A t \in Servers, d \in Clients, k \in 1..MaxCalls :
            ran'[t][<<d, k>>] = IF t = s /\ d = c /\ k = m THEN 1 ELSE ran[t][<<d, k>>]
  <2>1. <<c, m>> \in Requests
    BY DEF Requests
  <2>2. FirstRun(s, c, m)
    BY <1>1, <1>4, <1>5, <2>1 DEF BridgeTypes, FirstRun
  <2>3. RanNow(s, c, m)
    BY <1>1, <2>2, Runs
  <2> QED
    BY <2>3 DEF RanNow
<1>7. BridgeTypes'
  BY <1>1, <1>4, <1>6 DEF BridgeTypes
<1>8. LinkInv(c)'
  BY <1>3, <1>4 DEF ClientInv, LinkInv, Carries
<1>9. MaxCalls \in Nat /\ calls[c] \in 0..MaxCalls
  BY <1>1, BridgeAssumption DEF BridgeTypes
<1>10. RanInv(c)'
  <2> SUFFICES ASSUME NEW t \in Servers
               PROVE  RunsOnce(c, t)' /\ RanBefore(c, t)' /\ RanHere(c, t)'
    BY DEF RanInv
  <2>1. RunsOnce(c, t) /\ RanBefore(c, t) /\ RanHere(c, t)
    BY <1>3 DEF ClientInv, RanInv
  <2>2. RunsOnce(c, t)'
    <3> SUFFICES ASSUME NEW k \in 1..MaxCalls
                 PROVE  /\ ran'[t][<<c, k>>] \in {0, 1}
                        /\ <<t, c, k>> \in orphans' => ran'[t][<<c, k>>] = 0
                        /\ k > calls[c] => ran'[t][<<c, k>>] = 0 /\ <<t, c, k>> \notin orphans'
      BY <1>4 DEF RunsOnce
    <3>1. /\ ran[t][<<c, k>>] \in {0, 1}
          /\ <<t, c, k>> \in orphans => ran[t][<<c, k>>] = 0
          /\ k > calls[c] => ran[t][<<c, k>>] = 0 /\ <<t, c, k>> \notin orphans
      BY <2>1 DEF RunsOnce
    <3>2. ran'[t][<<c, k>>] = IF t = s /\ k = m THEN 1 ELSE ran[t][<<c, k>>]
      BY <1>6
    <3>3. CASE t = s /\ k = m
      BY <1>4, <1>5, <3>2, <3>3
    <3>4. CASE ~(t = s /\ k = m)
      BY <1>4, <3>1, <3>2, <3>4
    <3> QED
      BY <3>3, <3>4
  <2>3. ASSUME call[c].stage # "none" PROVE ran'[t][<<c, calls[c]>>] = ran[t][<<c, calls[c]>>]
    <3>1. calls[c] \in 1..MaxCalls /\ calls[c] # m
      BY <1>3, <1>5, <1>9, <2>3 DEF ClientInv, LinkInv
    <3> QED
      BY <1>6, <3>1
  <2>4. RanBefore(c, t)'
    BY <1>4, <2>1, <2>3 DEF RanBefore, Handled
  <2>5. Handled(c) => call[c].stage # "none"
    BY <1>3 DEF ClientInv, LinkInv, Carries, Handled
  <2>6. RanHere(c, t)'
    BY <1>4, <2>1, <2>3, <2>5 DEF RanHere, Handled
  <2> QED
    BY <2>2, <2>4, <2>6
<1>11. AnswerInv(c)'
  <2> SUFFICES ASSUME outcome[c].kind = "answer" PROVE AnswerInv(c)'
    BY <1>4 DEF AnswerInv
  <2>1. calls[c] > 0 /\ calls[c] \in 1..MaxCalls /\ outcome[c].of = calls[c]
    BY <1>3, <1>9 DEF ClientInv, AnswerInv
  <2>2. PICK t \in Servers : ran[t][<<c, calls[c]>>] > 0
    BY <1>3 DEF ClientInv, AnswerInv
  <2>3. ran'[t][<<c, calls[c]>>] > 0
    BY <1>6, <2>1, <2>2
  <2> QED
    BY <1>4, <2>1, <2>3 DEF AnswerInv
<1>12. \A d \in Clients \ {c} :
          \A t \in Servers, k \in 1..MaxCalls :
             /\ ran'[t][<<d, k>>] = ran[t][<<d, k>>]
             /\ <<t, d, k>> \in orphans' <=> <<t, d, k>> \in orphans
  BY <1>4, <1>6
<1> QED
  BY <1>4, <1>7, <1>8, <1>10, <1>11, <1>12, OneClient DEF ClientInv

-----------------------------------------------------------------------------
(* The invariant and what follows.                                         *)

LEMMA InitInv == Init => BridgeInv
<1> SUFFICES ASSUME Init PROVE BridgeInv
  OBVIOUS
<1>1. MaxCalls \in Nat
  BY BridgeAssumption
<1>2. BridgeTypes
  BY <1>1 DEF Init, BridgeInit, BridgeTypes, NoCall, NoOutcome, Requests
<1>3. ASSUME NEW c \in Clients PROVE ClientInv(c)
  <2>1. link[c] = NoLink /\ call[c] = NoCall /\ calls[c] = 0 /\ outcome[c] = NoOutcome
    BY DEF Init, BridgeInit
  <2>2. LinkInv(c) /\ ~Handled(c)
    <3>1. call[c].stage = "none" /\ (call[c].stage = "wait") = FALSE
      BY <2>1 DEF NoCall
    <3>2. LinkInv(c)
      BY <2>1, <3>1, NoLinkCarries DEF LinkInv
    <3> QED
      BY <2>1, <3>2 DEF Handled, NoLink
  <2>3. \A s \in Servers, m \in 1..MaxCalls : ran[s][<<c, m>>] = 0
    BY DEF Init, BridgeInit, Requests
  <2>4. RanInv(c)
    BY <2>1, <2>2, <2>3 DEF RanInv, RunsOnce, RanBefore, RanHere, NoCall, Init, BridgeInit
  <2> QED
    BY <2>1, <2>2, <2>4 DEF ClientInv, AnswerInv, NoOutcome
<1> QED
  BY <1>2, <1>3 DEF BridgeInv

LEMMA Unmoved == ASSUME BridgeInv, UNCHANGED bvars PROVE BridgeInv'
<1>1. BridgeTypes'
  BY DEF BridgeInv, BridgeTypes, bvars
<1>2. ASSUME NEW c \in Clients PROVE ClientInv(c)'
  <2>1. ClientInv(c)
    BY DEF BridgeInv
  <2>2. LinkInv(c)'
    BY <2>1 DEF ClientInv, LinkInv, Carries, bvars
  <2>3. RanInv(c)'
    BY <2>1 DEF ClientInv, RanInv, RunsOnce, RanBefore, RanHere, Handled, bvars
  <2> QED
    BY <2>1, <2>2, <2>3 DEF ClientInv, AnswerInv, bvars
<1> QED
  BY <1>1, <1>2 DEF BridgeInv

LEMMA ClientSteps == ASSUME BridgeInv, NEW c \in Clients, ClientStep(c) PROVE BridgeInv'
<1>1. CASE Connect(c)
  BY <1>1, ConnectStep
<1>2. CASE RecordInode(c)
  BY <1>2, RecordStep
<1>3. CASE Send(c)
  BY <1>3, SendStep
<1>4. CASE Receive(c)
  BY <1>4, ReceiveStep
<1>5. CASE Broken(c)
  BY <1>5, FailedStep DEF Broken
<1>6. CASE TimedOut(c)
  BY <1>6, FailedStep DEF TimedOut
<1> QED
  BY <1>1, <1>2, <1>3, <1>4, <1>5, <1>6 DEF ClientStep

LEMMA NextInv == ASSUME BridgeInv, [Next]_vars PROVE BridgeInv'
<1>1. CASE ServerStep
  <2>1. ASSUME NEW s \in Servers, StartServer(s) \/ CloseServer(s) \/ CheckFile(s)
                                  \/ RemoveFile(s) \/ KillServer(s)
        PROVE  BridgeInv'
    BY <2>1, StartStep, CloseStep, CheckStep, RemoveStep, KillStep
  <2>2. ASSUME NEW c \in Clients, ReadRequest(c) \/ AnswerRequest(c) PROVE BridgeInv'
    BY <2>2, ReadRequestStep, AnswerStep
  <2>3. ASSUME NEW o \in orphans, RunOrphan(o) PROVE BridgeInv'
    BY <2>3, OrphanStep
  <2> QED
    BY <1>1, <2>1, <2>2, <2>3 DEF ServerStep
<1>2. ASSUME NEW c \in Clients, ReadMessage(c) \/ BadArguments(c) \/ Respond(c) PROVE BridgeInv'
  BY <1>2, Unmoved DEF ReadMessage, BadArguments, Respond
<1>3. ASSUME NEW c \in Clients, CallTool(c) PROVE BridgeInv'
  BY <1>3, BeginStep DEF CallTool
<1>4. ASSUME NEW c \in Clients, ClientStep(c) PROVE BridgeInv'
  BY <1>4, ClientSteps
<1>5. CASE UNCHANGED vars
  BY <1>5, Unmoved DEF vars
<1> QED
  BY <1>1, <1>2, <1>3, <1>4, <1>5 DEF Next

\* However the runs of the main process come and go, a connection carries
\* nothing but the call in progress.
THEOREM BridgeIsTracked == Spec => []BridgeInv
<1>1. BridgeInv /\ [Next]_vars => BridgeInv'
  BY NextInv
<1> QED
  BY InitInv, <1>1, PTL DEF Spec

\* OwnAnswer, for any number of runs, children and calls: _send_recv returns
\* the answer to the request it sent, though neither carries a number.
THEOREM AnswersAreOwn == Spec => []OwnAnswer
<1>1. BridgeInv => OwnAnswer
  BY DEF BridgeInv, ClientInv, AnswerInv, OwnAnswer
<1> QED
  BY BridgeIsTracked, <1>1, PTL

\* OncePerServer: neither the second sending of call() nor the request that a
\* timeout left behind makes a run of the main process handle a request twice.
THEOREM HandledOncePerServer == Spec => []OncePerServer
<1>1. BridgeInv => OncePerServer
  <2> SUFFICES ASSUME BridgeInv, NEW s \in Servers, NEW r \in Requests PROVE ran[s][r] <= 1
    BY DEF OncePerServer
  <2>1. PICK c \in Clients, m \in 1..MaxCalls : r = <<c, m>>
    BY DEF Requests
  <2>2. ran[s][<<c, m>>] \in {0, 1}
    BY DEF BridgeInv, ClientInv, RanInv, RunsOnce
  <2> QED
    BY <2>1, <2>2
<1> QED
  BY BridgeIsTracked, <1>1, PTL

-----------------------------------------------------------------------------
(* Calls that fail.                                                        *)

\* Throughout a steady call there is a server to connect to, and the second
\* connection of the call, made to that server, stays.
SteadyInv(c) ==
    steady[c] /\ call[c].stage # "none" =>
        /\ Reachable
        /\ ~call[c].long /\ call[c].try # 1 /\ call[c].stage \in {"stat", "send", "wait"}
              => link[c].open \/ link[c].rep # <<>>

SteadyTypes == steady = [c \in Clients |-> steady[c]]

\* A step that does not concern the call of c.
LEMMA SteadyKept ==
    ASSUME NEW c \in Clients, SteadyInv(c), steady'[c] = steady[c], call'[c] = call[c],
           Reachable => Reachable',
           link[c].open \/ link[c].rep # <<>> => link'[c].open \/ link'[c].rep # <<>>
    PROVE  SteadyInv(c)'
BY DEF SteadyInv

LEMMA ReachableKept == ASSUME UNCHANGED <<path, up>> PROVE Reachable <=> Reachable'
BY DEF Reachable

\* Whatever happens to a server is a disturbance, but for the look at the file
\* of one that no longer accepts connections.
LEMMA ServerSteady ==
    ASSUME BridgeInv, SteadyTypes, \A c \in Clients : SteadyInv(c), NEW s \in Servers,
           StartServer(s) \/ CloseServer(s) \/ CheckFile(s) \/ RemoveFile(s) \/ KillServer(s)
    PROVE  SteadyTypes' /\ \A c \in Clients : SteadyInv(c)'
<1>1. CASE Disturbed
  <2>1. steady' = [c \in Clients |-> FALSE]
    BY <1>1 DEF Disturbed
  <2> QED
    BY <2>1 DEF SteadyTypes, SteadyInv
<1>2. CASE CheckFile(s)
  <2>1. UNCHANGED <<path, link, call, steady>> /\ up[s] = "closed"
    BY <1>2 DEF CheckFile, history
  <2>2. \A t \in Servers \ {s} : up'[t] = up[t]
    BY <1>2 DEF CheckFile, BridgeInv, BridgeTypes
  <2>3. Reachable => Reachable'
    BY <2>1, <2>2 DEF Reachable, BridgeInv, BridgeTypes
  <2> QED
    BY <2>1, <2>3, SteadyKept DEF SteadyTypes
<1> QED
  BY <1>1, <1>2 DEF StartServer, CloseServer, RemoveFile, KillServer

\* The server reads and answers; only a line that is too long ends the
\* connection.
LEMMA RequestSteady ==
    ASSUME BridgeInv, SteadyTypes, \A c \in Clients : SteadyInv(c),
           \/ \E c \in Clients : ReadRequest(c) \/ AnswerRequest(c)
           \/ \E o \in orphans : RunOrphan(o)
    PROVE  SteadyTypes' /\ \A c \in Clients : SteadyInv(c)'
<1>1. UNCHANGED <<path, up, call, steady>>
  BY DEF ReadRequest, AnswerRequest, RunOrphan, server, history
<1>2. link = [c \in Clients |-> link[c]]
  BY DEF BridgeInv, BridgeTypes
<1>3. ASSUME NEW c \in Clients PROVE SteadyInv(c)'
  <2>1. CASE link'[c] = link[c]
    BY <1>1, <2>1, SteadyKept, ReachableKept
  <2>2. CASE ReadRequest(c) /\ call[c].long
    BY <1>1, <2>2, ReachableKept DEF SteadyInv
  <2>3. CASE (ReadRequest(c) /\ ~call[c].long) \/ AnswerRequest(c)
    <3>1. link[c].open /\ Carries(link[c], call[c].stage = "wait", calls[c])
      BY <2>3 DEF ReadRequest, AnswerRequest, BridgeInv, ClientInv, LinkInv
    <3>2. link'[c].open
      BY <1>2, <2>3, <3>1 DEF ReadRequest, AnswerRequest, Carries
    <3> QED
      BY <1>1, <3>2, SteadyKept, ReachableKept
  <2>4. link'[c] = link[c] \/ ReadRequest(c) \/ AnswerRequest(c)
    BY <1>2 DEF ReadRequest, AnswerRequest, RunOrphan
  <2> QED
    BY <2>1, <2>2, <2>3, <2>4
<1> QED
  BY <1>1, <1>3 DEF SteadyTypes

\* The first connection of a call may be stale; what follows a break is made
\* anew.
LEMMA ClientSteady ==
    ASSUME BridgeInv, SteadyTypes, \A d \in Clients : SteadyInv(d), NEW c \in Clients,
           BeginCall(c) \/ ClientStep(c)
    PROVE  SteadyTypes' /\ \A d \in Clients : SteadyInv(d)'
<1>1. UNCHANGED <<path, up>>
  BY DEF BeginCall, ClientStep, Connect, RecordInode, Send, Receive, Broken, TimedOut, Failed, server
<1>2. ASSUME NEW d \in Clients, d # c
      PROVE  link'[d] = link[d] /\ call'[d] = call[d] /\ steady'[d] = steady[d]
  BY <1>2 DEF BeginCall, ClientStep, Connect, RecordInode, Send, Receive, Broken, TimedOut, Failed,
              Dropped, Unlinked, EndCall, history, BridgeInv, BridgeTypes, SteadyTypes
<1>3. /\ BridgeTypes /\ SteadyTypes /\ SteadyInv(c)
      /\ Carries(link[c], call[c].stage = "wait", calls[c])
  BY DEF BridgeInv, ClientInv, LinkInv
<1>4. ASSUME BeginCall(c) PROVE SteadyInv(c)'
  <2>1. steady'[c] = Reachable /\ call'[c].try = 1
    BY <1>3, <1>4 DEF BeginCall, BridgeTypes, SteadyTypes
  <2> QED
    BY <1>1, <2>1, ReachableKept DEF SteadyInv
<1>5. ASSUME ClientStep(c) PROVE SteadyInv(c)'
  <2>1. steady' = steady
    BY <1>5 DEF ClientStep, Connect, RecordInode, Send, Receive, Broken, TimedOut, Failed, history
  <2>2. steady[c] /\ call[c].stage # "none" => Reachable'
    BY <1>1, <1>3, ReachableKept DEF SteadyInv
  <2>3. call[c].stage # "none"
    BY <1>5 DEF ClientStep, Connect, RecordInode, Send, Receive, Broken, TimedOut
  <2>4. CASE Connect(c)
    <3>1. CASE Reachable
      <4>1. link'[c] = [NoLink EXCEPT !.srv = path, !.open = TRUE]
        BY <1>3, <2>4, <3>1 DEF Connect, BridgeTypes
      <4>2. link'[c].open
        BY <4>1 DEF NoLink
      <4> QED
        BY <2>1, <2>2, <2>3, <4>2 DEF SteadyInv
    <3>2. CASE ~Reachable
      <4>1. call'[c].stage = "none"
        BY <1>3, <2>4, <3>2 DEF Connect, EndCall, BridgeTypes, NoCall
      <4> QED
        BY <4>1 DEF SteadyInv
    <3> QED
      BY <3>1, <3>2
  <2>5. CASE RecordInode(c)
    <3>1. /\ link'[c].open = link[c].open /\ link'[c].rep = link[c].rep
          /\ call'[c].long = call[c].long /\ call'[c].try = call[c].try
          /\ call[c].stage = "stat"
      BY <1>3, <2>5 DEF RecordInode, BridgeTypes, Carries
    <3> QED
      BY <1>3, <2>1, <2>2, <2>3, <3>1 DEF SteadyInv
  <2>6. CASE Send(c)
    <3>1. link'[c].open
      BY <1>3, <2>6 DEF Send, BridgeTypes, Carries
    <3> QED
      BY <2>1, <2>2, <2>3, <3>1 DEF SteadyInv
  <2>7. CASE Receive(c) \/ Broken(c) \/ TimedOut(c)
    <3>1. call'[c].stage \in {"none", "connect"}
      BY <1>3, <2>7 DEF Receive, Broken, TimedOut, Failed, EndCall, BridgeTypes, NoCall
    <3> QED
      BY <2>1, <2>2, <2>3, <3>1 DEF SteadyInv
  <2> QED
    BY <1>5, <2>4, <2>5, <2>6, <2>7 DEF ClientStep
<1>6. SteadyInv(c)'
  BY <1>4, <1>5
<1>7. ASSUME NEW d \in Clients, d # c PROVE SteadyInv(d)'
  BY <1>1, <1>2, <1>7, SteadyKept, ReachableKept
<1>8. SteadyTypes'
  BY <1>3 DEF BeginCall, ClientStep, Connect, RecordInode, Send, Receive, Broken, TimedOut, Failed,
              history, SteadyTypes
<1> QED
  BY <1>6, <1>7, <1>8

LEMMA SteadyUnmoved ==
    ASSUME SteadyTypes, \A c \in Clients : SteadyInv(c), UNCHANGED bvars
    PROVE  SteadyTypes' /\ \A c \in Clients : SteadyInv(c)'
BY SteadyKept, ReachableKept DEF bvars, SteadyTypes

LEMMA NextSteady ==
    ASSUME BridgeInv, SteadyTypes, \A c \in Clients : SteadyInv(c), [Next]_vars
    PROVE  SteadyTypes' /\ \A c \in Clients : SteadyInv(c)'
<1>1. CASE ServerStep
  BY <1>1, ServerSteady, RequestSteady DEF ServerStep
<1>2. CASE \E c \in Clients : BeginCall(c) \/ ClientStep(c)
  BY <1>2, ClientSteady
<1>3. CASE UNCHANGED bvars
  BY <1>3, SteadyUnmoved
<1> QED
  BY <1>1, <1>2, <1>3 DEF Next, vars, ReadMessage, BadArguments, CallTool, Respond

LEMMA SteadyThroughout ==
    Spec => [](BridgeInv /\ SteadyTypes /\ \A c \in Clients : SteadyInv(c))
<1> DEFINE Inv == BridgeInv /\ SteadyTypes /\ \A c \in Clients : SteadyInv(c)
<1>1. Init => Inv
  BY InitInv DEF Init, BridgeInit, SteadyTypes, SteadyInv
<1>2. Inv /\ [Next]_vars => Inv'
  BY NextInv, NextSteady
<1> QED
  BY <1>1, <1>2, PTL DEF Spec

\* Only a refusal or a second break ends a call for want of a connection, and
\* neither happens to a steady call.
LEMMA EndsAreExplained ==
    ASSUME BridgeInv, \A d \in Clients : SteadyInv(d), NEW c \in Clients,
           call[c] # NoCall, call'[c] = NoCall, outcome'[c].kind \in {"refused", "broken"},
           [Next]_vars
    PROVE  ~steady[c] \/ call[c].long
<1>1. BridgeTypes /\ SteadyInv(c)
  BY DEF BridgeInv
<1>2. CASE call' = call
  BY <1>2
<1>3. CASE \E d \in Clients : BeginCall(d)
  BY <1>1, <1>3 DEF BeginCall, BridgeTypes, NoCall
<1>4. CASE \E d \in Clients \ {c} : ClientStep(d)
  BY <1>1, <1>4 DEF ClientStep, Connect, RecordInode, Send, Receive, Broken, TimedOut, Failed,
                    EndCall, BridgeTypes
<1>5. CASE Connect(c)
  BY <1>1, <1>5 DEF Connect, SteadyInv, BridgeTypes, NoCall
<1>6. CASE RecordInode(c) \/ Send(c)
  BY <1>1, <1>6 DEF RecordInode, Send, BridgeTypes, NoCall
<1>7. CASE Receive(c) \/ TimedOut(c)
  BY <1>1, <1>7 DEF Receive, TimedOut, Failed, SentAgain, EndCall, BridgeTypes
<1>8. CASE Broken(c)
  <2>1. call[c].try # 1
    BY <1>1, <1>8 DEF Broken, Failed, SentAgain, BridgeTypes, NoCall
  <2> QED
    BY <1>1, <1>8, <2>1 DEF Broken, SteadyInv, BridgeTypes
<1>9. call' = call \/ \E d \in Clients : BeginCall(d) \/ ClientStep(d)
  BY DEF Next, vars, bvars, ServerStep, StartServer, CloseServer, CheckFile, RemoveFile, KillServer,
         ReadRequest, AnswerRequest, RunOrphan, ReadMessage, BadArguments, CallTool, Respond
<1> QED
  BY <1>2, <1>3, <1>4, <1>5, <1>6, <1>7, <1>8, <1>9 DEF ClientStep

\* A call that was steady and not too long never fails for want of a
\* connection (_is_stale, the reconnection in call()).
THEOREM FailuresAreExplained == Spec => NoSpuriousFailure
<1> DEFINE Inv == BridgeInv /\ SteadyTypes /\ \A c \in Clients : SteadyInv(c)
<1>1. Inv /\ [Next]_vars =>
        [\A c \in Clients :
           call[c] # NoCall /\ call'[c] = NoCall /\ outcome'[c].kind \in {"refused", "broken"}
             => ~steady[c] \/ call[c].long]_vars
  BY EndsAreExplained
<1> QED
  BY SteadyThroughout, <1>1, PTL DEF Spec, NoSpuriousFailure
=============================================================================
