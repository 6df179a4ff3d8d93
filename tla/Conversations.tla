---------------------------- MODULE Conversations ----------------------------
(***************************************************************************)
(* Which session a user of the Telegram frontend talks to.  The handlers   *)
(* of chat messages run one at a time; /new, /switch and the automatic     *)
(* choice make a session the active one, in memory and in                  *)
(* active_sessions.json, and /delete unmakes it.  The cron scheduler       *)
(* creates and destroys sessions of the same user meanwhile.               *)
(***************************************************************************)
EXTENDS SessionSlots

CONSTANTS
    Names,      \* names that users give, among them "session-<slot>" for each slot
    CronName, NoCall

ASSUME NoCallAssumption == NoCall \notin Calls

VARIABLES
    name,       \* of each session
    byCron,     \* the sessions that the scheduler creates
    handler,    \* the session that the chat handler is creating or deleting
    chosen,     \* ctx.user_data["active_session_id"], lost in a restart
    stored,     \* active_sessions.json
    \* History:
    wanted,     \* the last session made active, unless the user deleted it
    letter,     \* the last message: {<<wanted, the session reached>>}, {} without a wanted one
    auto        \* the sessions created for a message, whose name nobody chose

cvars == <<vars, name, byCron, handler, chosen, stored, wanted, letter, auto>>
talk == <<chosen, stored, wanted, letter>>
traits == <<name, byCron, auto>>

CInit ==
    /\ Init
    /\ name = [c \in Calls |-> CronName] /\ byCron = {}
    /\ handler = NoCall /\ chosen = NoCall /\ stored = NoCall
    /\ wanted = NoCall /\ letter = {} /\ auto = {}

Idle == handler = NoCall

\* Mutant: only the memory is set.
Persists_Not(c) == stored

\* What _set_active writes to the file.
Persists(c) == c

SetActive(c) == chosen' = c /\ stored' = Persists(c) /\ wanted' = c

\* A message reaches session c.
Reaches(c) == letter' = ({wanted} \cap Live) \X {c}

\* Mutant: the name is not looked up.
NameFree_Unchecked(n) == TRUE

\* get_session_by_name.
NameFree(n) == \A c \in Live : name[c] # n

\* /new, with a name or with "session-<slot>", up to the await of tmux.
New(c, n) ==
    /\ Idle /\ NameFree(n)
    /\ BeginCreate(c)
    /\ name' = [name EXCEPT ![c] = n]
    /\ handler' = c
    /\ UNCHANGED <<byCron, auto, talk>>

\* A cron job that wants a session of its own.
CronCreate(c) ==
    /\ BeginCreate(c)
    /\ byCron' = byCron \cup {c}
    /\ UNCHANGED <<name, auto, handler, talk>>

\* tmux answers; the new session of a chat handler is active at once.
Created(c) ==
    /\ TmuxCreated(c)
    /\ IF handler = c THEN handler' = NoCall /\ SetActive(c)
                      ELSE UNCHANGED <<handler, chosen, stored, wanted>>
    /\ UNCHANGED <<traits, letter>>

\* The session is gone for good, and its directory with it.
Forget(c) ==
    /\ name' = [name EXCEPT ![c] = CronName]
    /\ byCron' = byCron \ {c} /\ auto' = auto \ {c}

CreateFails(c) ==
    /\ TmuxFailed(c)
    /\ handler' = IF handler = c THEN NoCall ELSE handler
    /\ Forget(c)
    /\ UNCHANGED talk

Refused(c) == Idle /\ Refuse(c) /\ UNCHANGED <<handler, traits, talk>>

\* /switch, by slot or name.
Switch(c) ==
    /\ Idle /\ c \in Live
    /\ SetActive(c)
    /\ UNCHANGED <<vars, handler, traits, letter>>

\* /rename.
Rename(c, n) ==
    /\ Idle /\ c \in Live /\ NameFree(n)
    /\ name' = [name EXCEPT ![c] = n]
    /\ UNCHANGED <<vars, byCron, auto, handler, talk>>

\* /delete: the session leaves the dict at once ...
Delete(c) ==
    /\ Idle /\ Destroy(c)
    /\ handler' = c
    /\ wanted' = IF wanted = c THEN NoCall ELSE wanted
    /\ UNCHANGED <<traits, chosen, stored, letter>>

\* ... and the active map once it is destroyed.  The scheduler's sessions go
\* without a look at the map.
Deleted(c) ==
    /\ Removed(c)
    /\ IF handler = c
         THEN /\ handler' = NoCall
              /\ chosen' = IF chosen = c THEN NoCall ELSE chosen
              /\ stored' = IF chosen = c \/ stored = c THEN NoCall ELSE stored
         ELSE UNCHANGED <<handler, chosen, stored>>
    /\ Forget(c)
    /\ UNCHANGED <<wanted, letter>>

CronDestroy(c) == c \in byCron /\ Destroy(c) /\ UNCHANGED <<handler, traits, talk>>

\* The active session: the one in memory, or else the one in the file.
Active == IF chosen \in Live THEN chosen ELSE IF stored \in Live THEN stored ELSE NoCall

\* A message, text or media, goes to the active session; a dead one refuses it.
MessageTo(c) ==
    /\ Idle /\ Active # NoCall /\ c = Active
    /\ chosen' = c
    /\ Reaches(c)
    /\ UNCHANGED <<vars, handler, traits, stored, wanted>>

\* Without one it goes to a session that is not dead, idle ones first, ...
\* (the status is the execution's: here any session may be dead, or idle)
MessageToOther(c) ==
    /\ Idle /\ Active = NoCall /\ c \in Live
    /\ SetActive(c) /\ Reaches(c)
    /\ UNCHANGED <<vars, handler, traits>>

\* ... or, if all are dead, to a new one, named after the first free slot.
MessageToNew(c) ==
    /\ Idle /\ Active = NoCall
    /\ BeginCreate(c)
    /\ \E n \in Names :
          /\ n \in 1..limit => IsNextSlot(n)
          /\ name' = [name EXCEPT ![c] = n]
    /\ handler' = c /\ auto' = auto \cup {c}
    /\ Reaches(c)
    /\ UNCHANGED <<byCron, chosen, stored, wanted>>

CRestart ==
    /\ Restart
    /\ handler' = NoCall /\ chosen' = NoCall
    /\ UNCHANGED <<traits, stored, wanted, letter>>

CReload == Reload /\ UNCHANGED <<handler, traits, talk>>

CNext ==
    \/ \E c \in Calls :
         \/ \E n \in Names : New(c, n) \/ Rename(c, n)
         \/ CronCreate(c) \/ Created(c) \/ CreateFails(c) \/ Refused(c) \/ Switch(c)
         \/ Delete(c) \/ Deleted(c) \/ CronDestroy(c)
         \/ MessageTo(c) \/ MessageToOther(c) \/ MessageToNew(c)
    \/ CRestart \/ CReload

CSpec == CInit /\ [][CNext]_cvars

-----------------------------------------------------------------------------
(* Properties.                                                             *)

\* Every message reaches the session that the user chose last, or that was
\* chosen for them, for as long as it is there: whether memory names the active
\* session or, after a restart, only the file does, and when the scheduler
\* destroys other sessions of theirs.
MessageWhereChosen == \A l \in letter : l[2] = l[1]

\* The name that addresses a session addresses no other one: but for a session
\* that was created for a message while only dead ones were left, and one that
\* a restart brought back from its destruction.
NamesDistinct ==
    \A c, d \in Kept : name[c] = name[d] => c = d \/ name[c] = CronName \/ {c, d} \cap auto # {}
=============================================================================
