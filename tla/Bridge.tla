-------------------------------- MODULE Bridge --------------------------------
(***************************************************************************)
(* The bridge: RPC over a Unix socket from the MCP children, which outlive *)
(* a restart of claude-ext, to the main process.  A server is one run of   *)
(* the main process; a new one may start before the old one is gone.       *)
(*                                                                         *)
(* A client keeps one connection.  It drops the connection if the socket   *)
(* file shows another inode, if a call times out, or if the other end      *)
(* closes; in the last case it reconnects and sends the request once more. *)
(***************************************************************************)
EXTENDS Naturals, Sequences, SequencesExt

CONSTANTS
    Servers,        \* the runs of the main process, numbered in order
    Clients,        \* the MCP children
    Inodes,         \* inode numbers; a freed one is used again
    MaxCalls        \* calls of one client in a behaviour

ASSUME BridgeAssumption ==
    /\ Servers \subseteq Nat \ {0}
    /\ Inodes \subseteq Nat \ {0}
    /\ MaxCalls \in Nat

VARIABLES
    path,       \* the server whose socket the socket file is, 0: no file
    up,         \* of each server: off | up | closed | owner | gone
    inode,      \* of each server: that of its socket file
    link,       \* of each client: its connection, or NoLink
    call,       \* of each client: the call in progress, or NoCall
    calls,      \* of each client: the calls it made, at most MaxCalls
    orphans,    \* requests that a server may still read from a closed connection
    \* History:
    ran,        \* of each server: the handler runs of each request
    steady,     \* of each client: the way to a server was open throughout the call
    outcome     \* of each client: the answer to its last call

bvars == <<path, up, inode, link, call, calls, orphans, ran, steady, outcome>>
server == <<path, up, inode>>
history == <<ran, steady, outcome>>

Requests == Clients \X (1..MaxCalls)
NoLink == [srv |-> 0, ino |-> 0, open |-> FALSE, req |-> <<>>, cur |-> 0, rep |-> <<>>]
NoCall == [stage |-> "none", try |-> 0, long |-> FALSE]
NoOutcome == [kind |-> "none", of |-> 0]

BridgeInit ==
    /\ path = 0
    /\ up = [s \in Servers |-> "off"]
    /\ inode = [s \in Servers |-> 0]
    /\ link = [c \in Clients |-> NoLink]
    /\ call = [c \in Clients |-> NoCall]
    /\ calls = [c \in Clients |-> 0]
    /\ orphans = {}
    /\ ran = [s \in Servers |-> [r \in Requests |-> 0]]
    /\ steady = [c \in Clients |-> FALSE]
    /\ outcome = [c \in Clients |-> NoOutcome]

-----------------------------------------------------------------------------
(* The server.                                                             *)

LinkedTo(s) == {c \in Clients : link[c].srv = s /\ link[c].open}
OrphansOf(s) == {o \in orphans : o[1] = s}

\* The way to a server: the file, and a process that accepts connections.
Reachable == path # 0 /\ up[path] = "up"

\* Inode numbers that no socket holds.
Held == {inode[t] : t \in {u \in Servers : up[u] = "up" \/ LinkedTo(u) # {}}}

Disturbed == steady' = [c \in Clients |-> FALSE]

\* start(): the file is removed, made anew, and its inode remembered.
StartServer(s) ==
    /\ up[s] = "off" /\ \A t \in Servers : t < s => up[t] # "off"
    /\ \E i \in Inodes \ Held : inode' = [inode EXCEPT ![s] = i]
    /\ path' = s
    /\ up' = [up EXCEPT ![s] = "up"]
    /\ Disturbed
    /\ UNCHANGED <<link, call, calls, orphans, ran, outcome>>

\* stop(): no more connections; it then waits for those there are ...
CloseServer(s) ==
    /\ up[s] = "up"
    /\ up' = [up EXCEPT ![s] = "closed"]
    /\ Disturbed
    /\ UNCHANGED <<path, inode, link, call, calls, orphans, ran, outcome>>

OwnsFile(s) == path # 0 /\ inode[path] = inode[s]

\* ... looks whether the file is its own ...
CheckFile(s) ==
    /\ up[s] = "closed" /\ LinkedTo(s) = {} /\ OrphansOf(s) = {}
    /\ up' = [up EXCEPT ![s] = IF OwnsFile(s) THEN "owner" ELSE "gone"]
    /\ UNCHANGED <<path, inode, link, call, calls, orphans, history>>

\* ... and removes it.
RemoveFile(s) ==
    /\ up[s] = "owner"
    /\ path' = 0
    /\ up' = [up EXCEPT ![s] = "gone"]
    /\ Disturbed
    /\ UNCHANGED <<inode, link, call, calls, orphans, ran, outcome>>

\* The process dies, or ends before stop() does: every connection breaks.
KillServer(s) ==
    /\ up[s] \notin {"off", "gone"}
    /\ up' = [up EXCEPT ![s] = "gone"]
    /\ link' = [c \in Clients |->
                  IF c \in LinkedTo(s)
                    THEN [link[c] EXCEPT !.open = FALSE, !.req = <<>>, !.cur = 0]
                    ELSE link[c]]
    /\ orphans' = orphans \ OrphansOf(s)
    /\ Disturbed
    /\ UNCHANGED <<path, inode, call, calls, ran, outcome>>

\* _handle_client reads the next line once the last one is answered.  A line
\* over the reader's limit of 64 KiB raises, and the connection is closed.
ReadRequest(c) ==
    /\ link[c].open /\ link[c].cur = 0 /\ link[c].req # <<>>
    /\ LET n == Head(link[c].req) IN
         IF call[c].long /\ n = calls[c]
           THEN /\ link' = [link EXCEPT ![c].open = FALSE, ![c].req = <<>>]
                /\ UNCHANGED ran
           ELSE /\ link' = [link EXCEPT ![c].req = Tail(@), ![c].cur = n]
                /\ ran' = [ran EXCEPT ![link[c].srv][<<c, n>>] = @ + 1]
    /\ UNCHANGED <<server, call, calls, orphans, steady, outcome>>

\* The handlers are asked in turn: the first that raises or has a result
\* decides, and no result at all is an error too.  Either way it is an answer.
AnswerRequest(c) ==
    /\ link[c].open /\ link[c].cur # 0
    /\ link' = [link EXCEPT ![c].cur = 0, ![c].rep = Append(@, link[c].cur)]
    /\ UNCHANGED <<server, call, calls, orphans, history>>

\* The request of a call that timed out is handled all the same, or, if it is
\* too long, dropped.
RunOrphan(o) ==
    /\ orphans' = orphans \ {o}
    /\ ran' = [ran EXCEPT ![o[1]][<<o[2], o[3]>>] = @ + 1]
    /\ UNCHANGED <<server, link, call, calls, steady, outcome>>

-----------------------------------------------------------------------------
(* The client.                                                             *)

\* _close_socket.  What the server has not read yet it may still read.
Unlinked(c) ==
    /\ link' = [link EXCEPT ![c] = NoLink]
    /\ orphans' = IF link[c].open /\ ~call[c].long
                    THEN orphans \cup {<<link[c].srv, c, n>> : n \in ToSet(link[c].req)}
                    ELSE orphans

EndCall(c, kind, of) ==
    /\ call' = [call EXCEPT ![c] = NoCall]
    /\ outcome' = [outcome EXCEPT ![c] = [kind |-> kind, of |-> of]]

\* _is_stale: no file, or one with another inode than that of the connection.
Stale(c) == path = 0 \/ (link[c].ino # 0 /\ inode[path] # link[c].ino)

\* call(): the file is looked at unless that was done less than a second ago.
BeginCall(c) ==
    /\ call[c] = NoCall /\ calls[c] < MaxCalls
    /\ \E long \in BOOLEAN, look \in BOOLEAN :
         LET keep == link[c] # NoLink /\ ~(look /\ Stale(c)) IN
           /\ link' = IF keep THEN link ELSE [link EXCEPT ![c] = NoLink]
           /\ call' = [call EXCEPT ![c] =
                         [stage |-> IF keep THEN "send" ELSE "connect", try |-> 1, long |-> long]]
    /\ calls' = [calls EXCEPT ![c] = @ + 1]
    /\ steady' = [steady EXCEPT ![c] = Reachable]
    /\ outcome' = [outcome EXCEPT ![c] = NoOutcome]
    /\ UNCHANGED <<server, orphans, ran>>

\* _connect, up to the stat of the file ...
Connect(c) ==
    /\ call[c].stage = "connect"
    /\ IF Reachable
         THEN /\ link' = [link EXCEPT ![c] = [NoLink EXCEPT !.srv = path, !.open = TRUE]]
              /\ call' = [call EXCEPT ![c].stage = "stat"]
              /\ UNCHANGED outcome
         ELSE EndCall(c, "refused", calls[c]) /\ UNCHANGED link
    /\ UNCHANGED <<server, calls, orphans, ran, steady>>

\* ... whose inode is that of another server if it was replaced meanwhile.
RecordInode(c) ==
    /\ call[c].stage = "stat"
    /\ link' = [link EXCEPT ![c].ino = IF path = 0 THEN 0 ELSE inode[path]]
    /\ call' = [call EXCEPT ![c].stage = "send"]
    /\ UNCHANGED <<server, calls, orphans, history>>

Send(c) ==
    /\ call[c].stage = "send" /\ link[c].open
    /\ link' = [link EXCEPT ![c].req = Append(@, calls[c])]
    /\ call' = [call EXCEPT ![c].stage = "wait"]
    /\ UNCHANGED <<server, calls, orphans, history>>

\* _send_recv takes the first line, and drops what came with it.
Receive(c) ==
    /\ call[c].stage = "wait" /\ link[c].rep # <<>>
    /\ EndCall(c, "answer", Head(link[c].rep))
    /\ link' = [link EXCEPT ![c].rep = <<>>]
    /\ UNCHANGED <<server, calls, orphans, ran, steady>>

\* Mutants: a call that times out is sent again; one whose connection breaks
\* is not.
SentAgain_Always(c, kind) == call[c].try = 1
SentAgain_Never(c, kind) == FALSE

SentAgain(c, kind) == kind = "broken" /\ call[c].try = 1

\* Mutant: the connection of a call that timed out is used for the next.
Dropped_KeptOnTimeout(c, kind) ==
    IF kind = "timeout" THEN UNCHANGED <<link, orphans>> ELSE Unlinked(c)

Dropped(c, kind) == Unlinked(c)

\* A call that gets no answer: the connection is dropped in any case.
Failed(c, kind) ==
    /\ Dropped(c, kind)
    /\ IF SentAgain(c, kind)
         THEN call' = [call EXCEPT ![c].stage = "connect", ![c].try = 2] /\ UNCHANGED outcome
         ELSE EndCall(c, kind, calls[c])
    /\ UNCHANGED <<server, calls, ran, steady>>

Broken(c) ==
    /\ call[c].stage \in {"send", "wait"} /\ ~link[c].open /\ link[c].rep = <<>>
    /\ Failed(c, "broken")

TimedOut(c) == call[c].stage = "wait" /\ link[c].rep = <<>> /\ Failed(c, "timeout")

-----------------------------------------------------------------------------

ServerStep ==
    \/ \E s \in Servers : StartServer(s) \/ CloseServer(s) \/ CheckFile(s) \/ RemoveFile(s)
                          \/ KillServer(s)
    \/ \E c \in Clients : ReadRequest(c) \/ AnswerRequest(c)
    \/ \E o \in orphans : RunOrphan(o)

ClientStep(c) ==
    Connect(c) \/ RecordInode(c) \/ Send(c) \/ Receive(c) \/ Broken(c) \/ TimedOut(c)

BridgeNext == ServerStep \/ \E c \in Clients : BeginCall(c) \/ ClientStep(c)
=============================================================================
