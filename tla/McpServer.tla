------------------------------ MODULE McpServer -------------------------------
(***************************************************************************)
(* The MCP children: each reads JSON-RPC messages from claude, one at a    *)
(* time, and answers on its standard output; its tool handlers call the    *)
(* main process over the bridge.  In gateway mode a server with several    *)
(* tools shows one tool, named after itself, whose `action` names the      *)
(* command; the tools' own names still work.                               *)
(***************************************************************************)
EXTENDS Bridge

CONSTANTS Tools, Self, Other    \* tool names, the server's name, another name

VARIABLES
    gateway,    \* CLAUDE_EXT_GATEWAY_MODE
    handling,   \* of each client: whether a tool handler is running
    reply       \* of each client: the response to the last message

vars == <<bvars, gateway, handling, reply>>

Messages ==
    [method : {"initialize", "notifications/initialized", "tools/list", "other"}, id : BOOLEAN]
      \cup [method : {"tools/call"}, name : Tools \cup {Self, Other},
            action : Tools \cup {"help", Other}]

Init == BridgeInit /\ gateway \in BOOLEAN
        /\ handling = [c \in Clients |-> FALSE] /\ reply = [c \in Clients |-> "none"]

GatewayActive == gateway /\ \E t, u \in Tools : t # u

\* The command a tools/call asks for.
Command(m) == IF GatewayActive /\ m.name = Self THEN m.action ELSE m.name
IsHelp(m) == GatewayActive /\ m.name = Self /\ m.action = "help"

\* The response to a message that runs no handler; "none": it gets none.
Response(m) ==
    CASE m.method = "initialize" -> "server"
      [] m.method = "notifications/initialized" -> "none"
      [] m.method = "tools/list" -> IF GatewayActive THEN "gateway" ELSE "tools"
      [] m.method = "tools/call" -> IF IsHelp(m) THEN "help" ELSE "unknown"
      [] OTHER -> IF m.id THEN "no method" ELSE "none"

RunsHandler(m) == m.method = "tools/call" /\ Command(m) \in Tools

\* run() and _handle_message: a message without a handler ...
ReadMessage(c) ==
    /\ ~handling[c]
    /\ \E m \in Messages : ~RunsHandler(m) /\ reply' = [reply EXCEPT ![c] = Response(m)]
    /\ UNCHANGED <<bvars, gateway, handling>>

\* ... one whose handler refuses the arguments, and one whose handler calls
\* the main process.
BadArguments(c) ==
    /\ ~handling[c]
    /\ \E m \in Messages : RunsHandler(m)
    /\ reply' = [reply EXCEPT ![c] = "error"]
    /\ UNCHANGED <<bvars, gateway, handling>>

CallTool(c) ==
    /\ ~handling[c]
    /\ \E m \in Messages : RunsHandler(m)
    /\ BeginCall(c)
    /\ handling' = [handling EXCEPT ![c] = TRUE]
    /\ reply' = [reply EXCEPT ![c] = "none"]
    /\ UNCHANGED gateway

\* Mutant: only RuntimeError is caught, and a timeout ends the server.
Caught_OnlyBroken(kind) == kind # "timeout"

Caught(kind) == TRUE

\* The handler returns, or raises, which becomes an error text.
Respond(c) ==
    /\ handling[c] /\ call[c] = NoCall
    /\ Caught(outcome[c].kind)
    /\ reply' = [reply EXCEPT ![c] = IF outcome[c].kind = "answer" THEN "text" ELSE "error"]
    /\ handling' = [handling EXCEPT ![c] = FALSE]
    /\ UNCHANGED <<bvars, gateway>>

Next ==
    \/ ServerStep /\ UNCHANGED <<gateway, handling, reply>>
    \/ \E c \in Clients : \/ ReadMessage(c) \/ BadArguments(c) \/ CallTool(c) \/ Respond(c)
                          \/ ClientStep(c) /\ UNCHANGED <<gateway, handling, reply>>

\* A socket operation of a client ends, by its timeout at the latest.
Fairness ==
    \A c \in Clients : /\ WF_vars(ClientStep(c) /\ UNCHANGED <<gateway, handling, reply>>)
                       /\ WF_vars(Respond(c))

Spec == Init /\ [][Next]_vars /\ Fairness

-----------------------------------------------------------------------------
(* Properties.                                                             *)

\* A call that gets an answer gets the one to its own request, though the
\* protocol numbers neither: not the late answer to a call that timed out, nor
\* that to the first sending of a request that was sent twice.
OwnAnswer == \A c \in Clients : outcome[c].kind = "answer" =>
                outcome[c].of = calls[c] /\ \E s \in Servers : ran[s][<<c, calls[c]>>] > 0

\* A request is handled at most once by a run of the main process, through
\* timeouts and the second sending after a broken connection: a secret is not
\* stored, nor a question asked, twice.
OncePerServer == \A s \in Servers, r \in Requests : ran[s][r] <= 1

\* A call fails for want of a connection only if a server went, came or was
\* cut off while it ran, or its request was too long: never because the
\* connection the client still held belongs to a server that is gone, not
\* even if the new socket file got the inode of the old.
NoSpuriousFailure ==
    [][\A c \in Clients :
         call[c] # NoCall /\ call'[c] = NoCall /\ outcome'[c].kind \in {"refused", "broken"}
           => ~steady[c] \/ call[c].long]_vars

\* claude gets an answer to each tool call, whatever happens to the main
\* process meanwhile.
EveryCallAnswered == \A c \in Clients : handling[c] ~> reply[c] \in {"text", "error"}
=============================================================================
