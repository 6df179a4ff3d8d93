---------------------------- MODULE StreamProofs ----------------------------
(***************************************************************************)
(* Proofs about the stream buffer of the Telegram frontend, for any number *)
(* of pieces, prompts and failures and any length of a message: however    *)
(* the requests to Telegram overlap, fail or are answered out of order,    *)
(* the text of a message is in order, and that of one prompt. If none      *)
(* fails, no two overlap and no message is begun without text that was put *)
(* aside (calm, cut), all the text that came is in the chat, once.         *)
(***************************************************************************)
EXTENDS Stream, SequenceTheorems, WellFoundedInduction, TLAPS

Ascends(s) == \A i, j \in 1..Len(s) : i < j => s[i] < s[j]
Below(s, t) == \A i \in 1..Len(s), j \in 1..Len(t) : s[i] < t[j]

\* Text that came, in order; of one prompt, or of unfinished ones before it;
\* of the present one, or of unfinished ones.
Pieces(s) == s \in Seq(1..came) /\ Ascends(s)
Apart(s) == \A i, j \in 1..Len(s) : origin[s[i]] < origin[s[j]] => origin[s[i]] \in unfinished
Own(s) == \A i \in 1..Len(s) : \/ origin[s[i]] \in unfinished
                               \/ origin[s[i]] = prompt /\ stage # "idle"

\* Text that was flushed from the buffer of epoch e: it came before what is
\* buffered now, and may yet become the live text if the buffer is the same.
Flushed(s, e) == Pieces(s) /\ Below(s, parts) /\ Apart(s) /\ (e = epoch => Own(s))

FlightInv(f) ==
    /\ f = [by |-> f.by, kind |-> f.kind, to |-> f.to, content |-> f.content,
            fresh |-> f.fresh, epoch |-> f.epoch]
    /\ f.epoch \in 0..epoch
    /\ Flushed(f.content, f.epoch) /\ Flushed(f.fresh, f.epoch)

StreamTypes ==
    /\ came \in Nat /\ prompt \in Nat /\ epoch \in Nat /\ msg \in Nat
    /\ origin \in Seq(Nat) /\ Len(origin) = came /\ \A i \in 1..came : origin[i] <= prompt
    /\ rendered \in Seq(Nat)
    /\ chat \in Seq(Seq(Nat))
    /\ stage \in {"stopping", "failed"} => prompt \in unfinished

StreamInv ==
    /\ StreamTypes
    /\ Pieces(parts) /\ Own(parts)
    /\ Flushed(live, epoch)
    /\ \A f \in flights : FlightInv(f)
    /\ \A m \in 1..Len(chat) : Pieces(chat[m]) /\ Apart(chat[m])

-----------------------------------------------------------------------------
(* Text.                                                                   *)

LEMMA Empty == /\ Pieces(<<>>) /\ Own(<<>>) /\ Apart(<<>>)
               /\ \A s : Below(s, <<>>) /\ Below(<<>>, s)
BY DEF Pieces, Ascends, Own, Apart, Below

LEMMA OwnIsApart ==
    ASSUME StreamTypes, NEW s, Pieces(s), Own(s) PROVE Apart(s)
<1>1. \A i \in 1..Len(s) : s[i] \in 1..came
  BY ElementOfSeq DEF Pieces
<1> QED
  BY <1>1 DEF StreamTypes, Own, Apart

LEMMA Joined ==
    ASSUME StreamTypes, NEW s, NEW t, Pieces(s), Pieces(t), Own(s), Own(t), Below(s, t)
    PROVE  Pieces(s \o t) /\ Own(s \o t)
<1>1. s \in Seq(1..came) /\ t \in Seq(1..came) /\ Len(s) \in Nat /\ Len(t) \in Nat
  BY DEF Pieces
<1>2. /\ s \o t \in Seq(1..came) /\ Len(s \o t) = Len(s) + Len(t)
      /\ \A i \in 1..(Len(s) + Len(t)) :
           (s \o t)[i] = IF i <= Len(s) THEN s[i] ELSE t[i - Len(s)]
  BY <1>1, ConcatProperties
<1>3. \A i \in 1..(Len(s) + Len(t)) : ~(i <= Len(s)) => i - Len(s) \in 1..Len(t)
  BY <1>1
<1>4. /\ \A i \in 1..Len(s) : s[i] \in Nat
      /\ \A i \in 1..Len(t) : t[i] \in Nat
  BY <1>1 DEF StreamTypes
<1>5. Ascends(s \o t)
  <2> SUFFICES ASSUME NEW i \in 1..(Len(s) + Len(t)), NEW j \in 1..(Len(s) + Len(t)), i < j
               PROVE  (s \o t)[i] < (s \o t)[j]
    BY <1>2 DEF Ascends
  <2>1. CASE j <= Len(s)
    BY <1>1, <1>2, <2>1 DEF Pieces, Ascends
  <2>2. CASE i <= Len(s) /\ ~(j <= Len(s))
    <3>1. i \in 1..Len(s) /\ j - Len(s) \in 1..Len(t)
      BY <1>1, <1>3, <2>2
    <3>2. s[i] < t[j - Len(s)]
      BY <3>1 DEF Below
    <3> QED
      BY <1>2, <2>2, <3>2
  <2>3. CASE ~(i <= Len(s))
    <3>1. i - Len(s) \in 1..Len(t) /\ j - Len(s) \in 1..Len(t) /\ i - Len(s) < j - Len(s)
          /\ ~(j <= Len(s))
      BY <1>1, <1>3, <2>3
    <3>2. t[i - Len(s)] < t[j - Len(s)]
      BY <3>1 DEF Pieces, Ascends
    <3> QED
      BY <1>2, <2>3, <3>1, <3>2
  <2> QED
    BY <2>1, <2>2, <2>3
<1>6. Own(s \o t)
  <2> SUFFICES ASSUME NEW i \in 1..(Len(s) + Len(t))
               PROVE  \/ origin[(s \o t)[i]] \in unfinished
                      \/ origin[(s \o t)[i]] = prompt /\ stage # "idle"
    BY <1>2 DEF Own
  <2>1. CASE i <= Len(s)
    <3>1. i \in 1..Len(s) /\ (s \o t)[i] = s[i]
      BY <1>1, <1>2, <2>1
    <3> QED
      BY <3>1 DEF Own
  <2>2. CASE ~(i <= Len(s))
    BY <1>2, <1>3, <2>2 DEF Own
  <2> QED
    BY <2>1, <2>2
<1> QED
  BY <1>2, <1>5, <1>6 DEF Pieces

LEMMA Suffix ==
    ASSUME NEW s, NEW n \in Nat, Pieces(s), Own(s)
    PROVE  Pieces(SubSeq(s, n + 1, Len(s))) /\ Own(SubSeq(s, n + 1, Len(s)))
<1> DEFINE t == SubSeq(s, n + 1, Len(s))
<1>1. s \in Seq(1..came) /\ Len(s) \in Nat
  BY DEF Pieces
<1>2. \A i \in (n + 1)..Len(s) : s[i] \in 1..came
  <2>1. \A i \in (n + 1)..Len(s) : i \in 1..Len(s)
    BY <1>1
  <2> QED
    BY <1>1, <2>1, ElementOfSeq
<1>3. /\ t \in Seq(1..came) /\ Len(t) = IF n + 1 <= Len(s) THEN Len(s) - (n + 1) + 1 ELSE 0
      /\ \A i \in 1..(Len(s) - (n + 1) + 1) : t[i] = s[n + 1 + i - 1]
  BY <1>1, <1>2, SubSeqProperties
<1>4. \A i \in 1..Len(t) : t[i] = s[n + i] /\ n + i \in 1..Len(s)
  BY <1>1, <1>3
<1> HIDE DEF t
<1>5. Ascends(t)
  <2> SUFFICES ASSUME NEW i \in 1..Len(t), NEW j \in 1..Len(t), i < j PROVE t[i] < t[j]
    BY DEF Ascends
  <2>1. n + i < n + j
    OBVIOUS
  <2> QED
    BY <1>4, <2>1 DEF Pieces, Ascends
<1>6. Own(t)
  BY <1>4 DEF Own
<1> QED
  BY <1>3, <1>5, <1>6 DEF Pieces, t

\* A new message begins with text that is still the buffer's.
LEMMA Continued ==
    ASSUME StreamTypes, NEW fresh, NEW text, Pieces(fresh), Own(fresh), Pieces(text), Own(text)
    PROVE  Pieces(Continuation(fresh, text)) /\ Own(Continuation(fresh, text))
<1>1. Len(rendered) \in Nat
  BY DEF StreamTypes
<1>2. Pieces(Unsent(text)) /\ Own(Unsent(text))
  BY <1>1, Suffix DEF Unsent
<1> QED
  BY <1>2 DEF Continuation

LEMMA ContinuedBelow ==
    ASSUME StreamTypes, NEW fresh, NEW text, Pieces(text), Below(fresh, parts), Below(text, parts)
    PROVE  Below(Continuation(fresh, text), parts)
<1>1. Len(rendered) \in Nat /\ text \in Seq(1..came) /\ Len(text) \in Nat
  BY DEF StreamTypes, Pieces
<1>2. ASSUME NEW n \in Nat PROVE Below(SubSeq(text, n + 1, Len(text)), parts)
  <2>0. \A i \in (n + 1)..Len(text) : i \in 1..Len(text)
    BY <1>1
  <2>1. \A i \in (n + 1)..Len(text) : i \in 1..Len(text) /\ text[i] \in 1..came
    BY <1>1, <2>0, ElementOfSeq
  <2>2. /\ Len(SubSeq(text, n + 1, Len(text))) = IF n + 1 <= Len(text) THEN Len(text) - (n + 1) + 1
                                                                       ELSE 0
        /\ \A i \in 1..(Len(text) - (n + 1) + 1) :
             SubSeq(text, n + 1, Len(text))[i] = text[n + 1 + i - 1]
    BY <1>1, <2>1, SubSeqProperties
  <2>3. \A i \in 1..Len(SubSeq(text, n + 1, Len(text))) :
           SubSeq(text, n + 1, Len(text))[i] = text[n + i] /\ n + i \in 1..Len(text)
    BY <1>1, <2>2
  <2> QED
    BY <2>3 DEF Below
<1> QED
  BY <1>1, <1>2 DEF Continuation, Unsent

-----------------------------------------------------------------------------
(* What a step leaves of it.                                               *)

\* More text comes, more prompts end without a final event.
Onward ==
    /\ came \in Nat /\ came' \in Nat /\ came <= came' /\ \A i \in 1..came : origin'[i] = origin[i]
    /\ unfinished \subseteq unfinished'

LEMMA OnwardKeeps ==
    ASSUME Onward, NEW s, Pieces(s)
    PROVE  Pieces(s)' /\ (Apart(s) => Apart(s)')
<1>1. s \in Seq(1..came) /\ \A i \in 1..Len(s) : s[i] \in 1..came
  BY ElementOfSeq DEF Pieces
<1>2. 1..came \subseteq 1..came'
  BY DEF Onward
<1>3. s \in Seq(1..came')
  BY <1>1, <1>2, SeqMonotonic
<1>4. Apart(s) => Apart(s)'
  BY <1>1 DEF Onward, Apart
<1> QED
  BY <1>3, <1>4 DEF Pieces

\* The prompt goes on, or is known to be unfinished.
SamePrompt == UNCHANGED prompt /\ (stage' # "idle" \/ stage = "idle" \/ prompt \in unfinished')

LEMMA OwnKept ==
    ASSUME Onward, SamePrompt, NEW s, Pieces(s), Own(s)
    PROVE  Own(s)'
<1>1. \A i \in 1..Len(s) : s[i] \in 1..came
  BY ElementOfSeq DEF Pieces
<1> QED
  BY <1>1 DEF Onward, SamePrompt, Own

LEMMA FlushedKept ==
    ASSUME Onward, NEW s, NEW e, Flushed(s, e),
           Pieces(s) /\ Below(s, parts) => Below(s, parts'),
           e = epoch' => e = epoch /\ SamePrompt
    PROVE  Flushed(s, e)'
BY OnwardKeeps, OwnKept DEF Flushed

LEMMA FlightsKept ==
    ASSUME Onward, SamePrompt, UNCHANGED epoch,
           \A s : Pieces(s) /\ Below(s, parts) => Below(s, parts'),
           NEW f, FlightInv(f)
    PROVE  FlightInv(f)'
<1>1. ASSUME NEW s, Flushed(s, f.epoch) PROVE Flushed(s, f.epoch)'
  BY <1>1, FlushedKept
<1> QED
  BY <1>1 DEF FlightInv

LEMMA ChatKept ==
    ASSUME Onward, UNCHANGED chat, \A m \in 1..Len(chat) : Pieces(chat[m]) /\ Apart(chat[m])
    PROVE  \A m \in 1..Len(chat') : Pieces(chat[m])' /\ Apart(chat[m])'
BY OnwardKeeps

\* A step that brings no text and leaves the buffer, the prompt and the epoch.
LEMMA Still ==
    ASSUME UNCHANGED <<input, epoch, unfinished>>, UNCHANGED stage, came \in Nat
    PROVE  Onward /\ SamePrompt
BY DEF Onward, SamePrompt, input

-----------------------------------------------------------------------------
(* Flushing.                                                               *)

LEMMA FlushStep ==
    ASSUME StreamInv, NEW by, NEW force, Flush(by, force),
           UNCHANGED <<input, epoch, chat>>, unfinished \subseteq unfinished',
           stage' # "idle" \/ stage = "idle", stage' \in {"stopping", "failed"} => prompt \in unfinished'
    PROVE  StreamInv'
<1> DEFINE text == live \o parts
           more == Continuation(parts, text)
<1>1. Onward /\ SamePrompt
  BY DEF Onward, SamePrompt, input, StreamInv, StreamTypes
<1>2. Pieces(text) /\ Own(text) /\ Pieces(more) /\ Own(more) /\ Pieces(parts) /\ Own(parts)
  <2>1. Pieces(text) /\ Own(text)
    BY Joined DEF StreamInv, Flushed
  <2> QED
    BY <2>1, Continued DEF StreamInv
<1> HIDE DEF text, more
<1>3. CASE UNCHANGED <<parts, flights, live, rendered, msg>>
  <2>1. \A s : Pieces(s) /\ Below(s, parts) => Below(s, parts')
    BY <1>3
  <2>2. Flushed(live, epoch)'
    BY <1>1, <1>3, FlushedKept DEF StreamInv
  <2>3. \A f \in flights' : FlightInv(f)'
    BY <1>1, <1>3, <2>1, FlightsKept DEF StreamInv
  <2>4. Pieces(parts)' /\ Own(parts)'
    BY <1>1, <1>3, OnwardKeeps, OwnKept DEF StreamInv
  <2>5. StreamTypes'
    BY <1>3 DEF StreamInv, StreamTypes, input
  <2> QED
    BY <1>1, <2>2, <2>3, <2>4, <2>5, ChatKept DEF StreamInv
<1>4. CASE /\ parts' = <<>> /\ live' \in {text, more}
           /\ rendered' \in {rendered, <<>>} /\ msg' \in {msg, 0}
           /\ \A f \in flights' \ flights :
                /\ f = [by |-> f.by, kind |-> f.kind, to |-> f.to, content |-> f.content,
                        fresh |-> f.fresh, epoch |-> f.epoch]
                /\ f.content \in {text, more} /\ f.fresh = parts /\ f.epoch = epoch
  <2>1. \A s : Below(s, parts')
    BY <1>4, Empty
  <2>2. ASSUME NEW s \in {text, more, parts} PROVE Flushed(s, epoch)'
    BY <1>1, <1>2, <2>1, OnwardKeeps, OwnKept, OwnIsApart DEF Flushed, StreamInv
  <2>3. ASSUME NEW f \in flights' PROVE FlightInv(f)'
    <3>1. CASE f \in flights
      BY <1>1, <2>1, <3>1, FlightsKept DEF StreamInv
    <3>2. CASE f \notin flights
      <4>1. Flushed(f.content, f.epoch)' /\ Flushed(f.fresh, f.epoch)'
        BY <1>4, <2>2, <3>2
      <4> QED
        BY <1>4, <3>2, <4>1 DEF FlightInv, StreamInv, StreamTypes
    <3> QED
      BY <3>1, <3>2
  <2>4. Flushed(live, epoch)'
    BY <1>4, <2>2
  <2>5. Pieces(parts)' /\ Own(parts)'
    BY <1>4, Empty DEF Pieces, Ascends, Own
  <2>6. rendered' \in Seq(Nat) /\ msg' \in Nat
    <3>1. rendered' = rendered \/ rendered' = <<>>
      BY <1>4
    <3>2. rendered' \in Seq(Nat)
      BY <3>1, EmptySeq DEF StreamInv, StreamTypes
    <3>3. msg' = msg \/ msg' = 0
      BY <1>4
    <3>4. msg' \in Nat
      BY <3>3 DEF StreamInv, StreamTypes
    <3> QED
      BY <3>2, <3>4
  <2>7. StreamTypes'
    BY <2>6 DEF StreamInv, StreamTypes, input
  <2> QED
    BY <1>1, <2>3, <2>4, <2>5, <2>7, ChatKept DEF StreamInv
<1> QED
  BY <1>3, <1>4 DEF Flush, Request, Buffered, text, more

-----------------------------------------------------------------------------
(* The other steps.                                                        *)

LEMMA InitStream == Init => StreamInv
<1> SUFFICES ASSUME Init PROVE StreamInv
  OBVIOUS
<1>1. StreamTypes
  BY EmptySeq DEF Init, StreamTypes
<1>2. \A s : s = <<>> => Pieces(s) /\ Own(s) /\ Flushed(s, epoch)
  BY Empty DEF Flushed
<1> QED
  BY <1>1, <1>2 DEF Init, StreamInv

LEMMA TimerStep == ASSUME StreamInv, TimerFires PROVE StreamInv'
BY FlushStep DEF TimerFires, StreamInv, StreamTypes

LEMMA EndStep == ASSUME StreamInv, End("final") \/ End("stopping") PROVE StreamInv'
<1>1. CASE End("final")
  BY <1>1, FlushStep DEF End
<1>2. CASE End("stopping")
  BY <1>2, FlushStep DEF End
<1> QED
  BY <1>1, <1>2

\* What the buffer of a session that waits holds is of unfinished prompts.
LEMMA BeginStep == ASSUME StreamInv, Begin PROVE StreamInv'
<1>1. Onward /\ UNCHANGED <<parts, live, flights, chat, epoch, rendered, msg, unfinished, origin, came>>
  BY DEF Begin, Onward, input, buffer, StreamInv, StreamTypes
<1>2. ASSUME NEW s, Own(s) PROVE Own(s)'
  BY <1>1, <1>2 DEF Own, Begin, StreamInv, StreamTypes
<1>3. ASSUME NEW s, NEW e, Flushed(s, e) PROVE Flushed(s, e)'
  BY <1>1, <1>2, <1>3, OnwardKeeps DEF Flushed
<1>4. \A f \in flights' : FlightInv(f)'
  BY <1>1, <1>3 DEF StreamInv, FlightInv
<1>5. StreamTypes'
  BY <1>1 DEF Begin, StreamInv, StreamTypes
<1>6. Flushed(live, epoch)' /\ Pieces(parts)' /\ Own(parts)'
  BY <1>1, <1>2, <1>3, OnwardKeeps DEF StreamInv
<1> QED
  BY <1>1, <1>4, <1>5, <1>6, ChatKept DEF StreamInv

LEMMA TextStep == ASSUME StreamInv, Text PROVE StreamInv'
<1> DEFINE p == came + 1
<1>1. /\ UNCHANGED <<live, rendered, msg, flights, stage, prompt, epoch, chat, unfinished>>
      /\ stage = "running" /\ came' = p /\ parts' = Append(parts, p)
      /\ origin' = Append(origin, prompt)
  BY DEF Text
<1>2. /\ came \in Nat /\ prompt \in Nat /\ origin \in Seq(Nat) /\ Len(origin) = came
      /\ parts \in Seq(1..came) /\ Len(parts) \in Nat
  BY DEF StreamInv, StreamTypes, Pieces
<1>3. /\ origin' \in Seq(Nat) /\ Len(origin') = came + 1
      /\ \A i \in 1..came : origin'[i] = origin[i]
      /\ origin'[p] = prompt
  BY <1>1, <1>2, AppendProperties
<1>4. Onward /\ SamePrompt
  BY <1>1, <1>2, <1>3 DEF Onward, SamePrompt
<1>5. parts \in Seq(1..p) /\ p \in 1..p
  BY <1>2, SeqMonotonic
<1>6. /\ parts' \in Seq(1..p) /\ Len(parts') = Len(parts) + 1
      /\ \A i \in 1..Len(parts) : parts'[i] = parts[i] /\ parts[i] \in 1..came
      /\ parts'[Len(parts) + 1] = p
  BY <1>1, <1>2, <1>5, AppendProperties, ElementOfSeq
<1>7. ASSUME NEW s, Pieces(s), Below(s, parts) PROVE Below(s, parts')
  <2>1. \A i \in 1..Len(s) : s[i] \in 1..came
    BY <1>7, ElementOfSeq DEF Pieces
  <2>2. SUFFICES ASSUME NEW i \in 1..Len(s), NEW j \in 1..Len(parts') PROVE s[i] < parts'[j]
    BY DEF Below
  <2>3. CASE j = Len(parts) + 1
    BY <1>2, <1>6, <2>1, <2>3
  <2>4. CASE j # Len(parts) + 1
    <3>1. j \in 1..Len(parts)
      BY <1>2, <1>6, <2>4
    <3> QED
      BY <1>6, <1>7, <3>1 DEF Below
  <2> QED
    BY <2>3, <2>4
<1>8. Pieces(parts)'
  <2>1. SUFFICES ASSUME NEW i \in 1..Len(parts'), NEW j \in 1..Len(parts'), i < j
                 PROVE  parts'[i] < parts'[j]
    BY <1>1, <1>6 DEF Pieces, Ascends
  <2>2. i \in 1..Len(parts)
    BY <1>2, <1>6, <2>1
  <2>3. CASE j = Len(parts) + 1
    <3>1. parts'[i] \in 1..came /\ parts'[j] = came + 1
      BY <1>6, <2>2, <2>3
    <3> QED
      BY <1>2, <3>1
  <2>4. CASE j # Len(parts) + 1
    <3>1. j \in 1..Len(parts)
      BY <1>2, <1>6, <2>4
    <3> QED
      BY <1>6, <2>1, <2>2, <3>1 DEF StreamInv, Pieces, Ascends
  <2> QED
    BY <2>3, <2>4
<1>9. Own(parts)'
  <2>1. SUFFICES ASSUME NEW i \in 1..Len(parts')
                 PROVE  origin'[parts'[i]] \in unfinished \/ origin'[parts'[i]] = prompt
    BY <1>1 DEF Own
  <2>2. CASE i = Len(parts) + 1
    BY <1>3, <1>6, <2>2
  <2>3. CASE i # Len(parts) + 1
    <3>1. i \in 1..Len(parts)
      BY <1>2, <1>6, <2>3
    <3> QED
      BY <1>3, <1>6, <3>1 DEF StreamInv, Own
  <2> QED
    BY <2>2, <2>3
<1>10. Flushed(live, epoch)'
  BY <1>1, <1>4, <1>7, FlushedKept DEF StreamInv
<1>11. \A f \in flights' : FlightInv(f)'
  BY <1>1, <1>4, <1>7, FlightsKept DEF StreamInv
<1>12. StreamTypes'
  <2>1. \A i \in 1..came' : origin'[i] <= prompt
    <3> SUFFICES ASSUME NEW i \in 1..came' PROVE origin'[i] <= prompt
      OBVIOUS
    <3>1. i = p \/ i \in 1..came
      BY <1>1, <1>2
    <3> QED
      BY <1>2, <1>3, <3>1 DEF StreamInv, StreamTypes
  <2> QED
    BY <1>1, <1>2, <1>3, <2>1 DEF StreamInv, StreamTypes
<1> QED
  BY <1>1, <1>4, <1>8, <1>9, <1>10, <1>11, <1>12, ChatKept DEF StreamInv

LEMMA FailsStep == ASSUME StreamInv, PromptFails PROVE StreamInv'
<1>1. /\ UNCHANGED <<came, origin, prompt, parts, live, rendered, msg, flights, epoch, chat>>
      /\ unfinished' = unfinished \cup {prompt} /\ stage' = "failed"
  BY DEF PromptFails, input, buffer
<1>2. Onward /\ SamePrompt
  BY <1>1 DEF Onward, SamePrompt, StreamInv, StreamTypes
<1>3. StreamTypes'
  BY <1>1 DEF StreamInv, StreamTypes
<1>4. Flushed(live, epoch)' /\ Pieces(parts)' /\ Own(parts)'
  BY <1>1, <1>2, FlushedKept, OnwardKeeps, OwnKept DEF StreamInv
<1>5. \A f \in flights' : FlightInv(f)'
  BY <1>1, <1>2, FlightsKept DEF StreamInv
<1> QED
  BY <1>1, <1>2, <1>3, <1>4, <1>5, ChatKept DEF StreamInv

LEMMA StoppedStep == ASSUME StreamInv, Stopped PROVE StreamInv'
<1>1. /\ UNCHANGED <<came, origin, prompt, parts, live, rendered, msg, flights, epoch, chat, unfinished>>
      /\ prompt \in unfinished /\ stage' = "idle"
  BY DEF Stopped, input, StreamInv, StreamTypes
<1>2. Onward /\ SamePrompt
  BY <1>1 DEF Onward, SamePrompt, StreamInv, StreamTypes
<1>3. StreamTypes'
  BY <1>1 DEF StreamInv, StreamTypes
<1>4. Flushed(live, epoch)' /\ Pieces(parts)' /\ Own(parts)'
  BY <1>1, <1>2, FlushedKept, OnwardKeeps, OwnKept DEF StreamInv
<1>5. \A f \in flights' : FlightInv(f)'
  BY <1>1, <1>2, FlightsKept DEF StreamInv
<1> QED
  BY <1>1, <1>2, <1>3, <1>4, <1>5, ChatKept DEF StreamInv

LEMMA FooterStep == ASSUME StreamInv, CostFooter PROVE StreamInv'
<1>1. /\ UNCHANGED <<came, origin, prompt, parts, live, rendered, msg, epoch, chat, unfinished>>
      /\ stage' = "footer"
  BY DEF CostFooter, input, buffer
<1>2. Onward /\ SamePrompt
  BY <1>1 DEF Onward, SamePrompt, StreamInv, StreamTypes
<1>3. StreamTypes'
  BY <1>1 DEF StreamInv, StreamTypes
<1>4. Flushed(live, epoch)' /\ Pieces(parts)' /\ Own(parts)'
  BY <1>1, <1>2, FlushedKept, OnwardKeeps, OwnKept DEF StreamInv
<1>5. ASSUME NEW f \in flights' PROVE FlightInv(f)'
  <2>1. CASE f \in flights
    BY <1>1, <1>2, <2>1, FlightsKept DEF StreamInv
  <2>2. CASE f \notin flights
    <3>1. /\ f = [by |-> f.by, kind |-> f.kind, to |-> f.to, content |-> f.content,
                  fresh |-> f.fresh, epoch |-> f.epoch]
          /\ f.content = live /\ f.fresh = <<>> /\ f.epoch = epoch
      BY <2>2 DEF CostFooter, Request
    <3>2. Flushed(<<>>, epoch)'
      BY Empty DEF Flushed, Pieces, Ascends, Apart, Own, Below
    <3> QED
      BY <1>1, <1>4, <3>1, <3>2 DEF FlightInv, StreamInv, StreamTypes
  <2> QED
    BY <2>1, <2>2
<1> QED
  BY <1>1, <1>2, <1>3, <1>4, <1>5, ChatKept DEF StreamInv

\* The buffer of a finished prompt goes; no flight belongs to the next one.
LEMMA CloseStep == ASSUME StreamInv, Close PROVE StreamInv'
<1>1. /\ UNCHANGED <<came, origin, prompt, flights, chat, unfinished>>
      /\ parts' = <<>> /\ live' = <<>> /\ rendered' = <<>> /\ msg' = 0
      /\ epoch' = epoch + 1 /\ stage' = "idle"
  BY DEF Close, NextMessage, input
<1>2. Onward /\ epoch \in Nat
  BY <1>1 DEF Onward, StreamInv, StreamTypes
<1>3. StreamTypes'
  BY <1>1, EmptySeq DEF StreamInv, StreamTypes
<1>4. Flushed(live, epoch)' /\ Pieces(parts)' /\ Own(parts)'
  BY <1>1 DEF Flushed, Pieces, Ascends, Apart, Own, Below
<1>5. ASSUME NEW f \in flights' PROVE FlightInv(f)'
  <2>1. FlightInv(f)
    BY <1>1 DEF StreamInv
  <2>2. f.epoch # epoch' /\ f.epoch \in 0..epoch'
    BY <1>1, <1>2, <2>1 DEF FlightInv
  <2>3. \A s : Below(s, parts')
    BY <1>1, Empty
  <2>4. Flushed(f.content, f.epoch)' /\ Flushed(f.fresh, f.epoch)'
    BY <1>2, <2>1, <2>2, <2>3, FlushedKept DEF FlightInv
  <2> QED
    BY <2>1, <2>2, <2>4 DEF FlightInv
<1> QED
  BY <1>1, <1>2, <1>3, <1>4, <1>5, ChatKept DEF StreamInv

-----------------------------------------------------------------------------
(* What Telegram answers.                                                  *)

\* The chat once a request is carried out.
LEMMA ShownStep ==
    ASSUME StreamInv, NEW f \in flights
    PROVE  /\ Shown(f) \in Seq(Seq(Nat))
           /\ \A m \in 1..Len(Shown(f)) : Pieces(Shown(f)[m]) /\ Apart(Shown(f)[m])
<1>1. /\ chat \in Seq(Seq(Nat)) /\ Len(chat) \in Nat /\ DOMAIN chat = 1..Len(chat)
      /\ Pieces(f.content) /\ Apart(f.content)
  BY LenProperties DEF StreamInv, StreamTypes, FlightInv, Flushed
<1>2. f.content \in Seq(Nat)
  <2>1. 1..came \subseteq Nat
    OBVIOUS
  <2> QED
    BY <1>1, <2>1, SeqMonotonic DEF Pieces
<1>3. CASE f.kind = "send"
  <2>1. Shown(f) = Append(chat, f.content)
    BY <1>3 DEF Shown
  <2>2. /\ Shown(f) \in Seq(Seq(Nat)) /\ Len(Shown(f)) = Len(chat) + 1
        /\ \A m \in 1..Len(chat) : Shown(f)[m] = chat[m]
        /\ Shown(f)[Len(chat) + 1] = f.content
    BY <1>1, <1>2, <2>1, AppendProperties
  <2>3. ASSUME NEW m \in 1..Len(Shown(f)) PROVE Pieces(Shown(f)[m]) /\ Apart(Shown(f)[m])
    <3>1. m = Len(chat) + 1 \/ m \in 1..Len(chat)
      BY <1>1, <2>2
    <3> QED
      BY <1>1, <2>2, <3>1 DEF StreamInv
  <2> QED
    BY <2>2, <2>3
<1>4. CASE f.kind # "send"
  <2>1. Shown(f) = [chat EXCEPT ![f.to] = f.content]
    BY <1>4 DEF Shown
  <2>2. CASE f.to \in 1..Len(chat)
    <3>1. /\ Shown(f) \in Seq(Seq(Nat)) /\ Len(Shown(f)) = Len(chat)
          /\ \A m \in 1..Len(chat) : Shown(f)[m] = IF m = f.to THEN f.content ELSE chat[m]
      BY <1>1, <1>2, <2>1, <2>2, ExceptSeq
    <3> QED
      BY <1>1, <3>1 DEF StreamInv
  <2>3. CASE f.to \notin 1..Len(chat)
    <3>1. Shown(f) = chat
      BY <1>1, <2>1, <2>3
    <3> QED
      BY <1>1, <3>1 DEF StreamInv
  <2> QED
    BY <2>2, <2>3
<1> QED
  BY <1>3, <1>4

\* A step of Telegram: the live text is replaced by text of the same buffer.
LEMMA TelegramStep ==
    ASSUME StreamInv, NEW f \in flights, UNCHANGED <<input, parts, stage, epoch, unfinished>>,
           chat' \in {chat, Shown(f)}, rendered' \in Seq(Nat), msg' \in Nat,
           Flushed(live', epoch), \A g \in flights' : FlightInv(g)
    PROVE  StreamInv'
<1>1. Onward /\ SamePrompt /\ \A s : Below(s, parts) => Below(s, parts')
  BY DEF Onward, SamePrompt, input, StreamInv, StreamTypes
<1>2. chat' \in Seq(Seq(Nat)) /\ \A m \in 1..Len(chat') : Pieces(chat'[m]) /\ Apart(chat'[m])
  BY ShownStep DEF StreamInv, StreamTypes
<1>3. \A m \in 1..Len(chat') : Pieces(chat[m])' /\ Apart(chat[m])'
  BY <1>2 DEF Pieces, Apart, input
<1>4. StreamTypes'
  BY <1>2 DEF StreamInv, StreamTypes, input
<1>5. \A s, e : Flushed(s, e) => Flushed(s, e)'
  BY DEF Flushed, Pieces, Apart, Own, input
<1>6. Flushed(live, epoch)' /\ Pieces(parts)' /\ Own(parts)'
  <2>1. Flushed(live', epoch)
    OBVIOUS
  <2> QED
    BY <2>1 DEF StreamInv, Flushed, Pieces, Apart, Own, input
<1>7. \A g \in flights' : FlightInv(g)'
  BY <1>5 DEF FlightInv
<1> QED
  BY <1>3, <1>4, <1>6, <1>7 DEF StreamInv

LEMMA AnsweredStep == ASSUME StreamInv, NEW f \in flights, Answered(f) PROVE StreamInv'
<1>1. /\ UNCHANGED <<input, parts, stage, epoch, unfinished>>
      /\ chat' = Shown(f) /\ flights' \subseteq flights
  BY DEF Answered
<1>2. FlightInv(f) /\ Len(chat) \in Nat
  BY LenProperties DEF StreamInv, StreamTypes
<1>3. live \in Seq(Nat) /\ (f.epoch = epoch => f.content \in Seq(Nat))
  <2>1. 1..came \subseteq Nat
    OBVIOUS
  <2> QED
    BY <1>2, <2>1, SeqMonotonic DEF StreamInv, FlightInv, Flushed, Pieces
<1>4. Flushed(live', epoch) /\ rendered' \in Seq(Nat) /\ msg' \in Nat
  <2>1. CASE f.epoch = epoch /\ f.kind = "send"
    <3>1. live' = f.content /\ rendered' = f.content /\ msg' = Len(chat) + 1
      BY <2>1 DEF Answered
    <3> QED
      BY <1>2, <1>3, <2>1, <3>1 DEF FlightInv
  <2>2. CASE ~(f.epoch = epoch /\ f.kind = "send")
    <3>1. /\ live' = live /\ (rendered' = rendered \/ rendered' = live)
          /\ msg' = msg \/ msg' = 0
      BY <2>2 DEF Answered
    <3> QED
      BY <1>3, <3>1 DEF StreamInv, StreamTypes
  <2> QED
    BY <2>1, <2>2
<1> QED
  BY <1>1, <1>4, TelegramStep DEF StreamInv

LEMMA FailedStep == ASSUME StreamInv, NEW f \in flights, Failed(f) PROVE StreamInv'
<1>1. /\ UNCHANGED <<input, parts, live, rendered, msg, stage, epoch, unfinished, chat>>
      /\ flights' \subseteq flights
  BY DEF Failed, buffer
<1> QED
  BY <1>1, TelegramStep DEF StreamInv, StreamTypes

LEMMA EditTimedOutStep == ASSUME StreamInv, NEW f \in flights, EditTimedOut(f) PROVE StreamInv'
<1> DEFINE more == IF f.epoch = epoch THEN Continuation(f.fresh, live) ELSE f.fresh
<1>1. /\ UNCHANGED <<input, parts, stage, epoch, unfinished>> /\ chat' \in {chat, Shown(f)}
      /\ flights' = (flights \ {f}) \cup
           {[f EXCEPT !.kind = "send", !.to = 0, !.content = m] : m \in {more} \ {<<>>}}
      /\ live' = live \/ (f.epoch = epoch /\ live' = more)
      /\ rendered' = rendered \/ rendered' = <<>>
      /\ msg' = msg \/ msg' = 0
  BY DEF EditTimedOut
<1>2. FlightInv(f) /\ Flushed(live, epoch)
  BY DEF StreamInv
<1>3. Flushed(more, f.epoch)
  <2>1. CASE f.epoch = epoch
    <3>1. Pieces(more) /\ Own(more)
      BY <1>2, <2>1, Continued DEF FlightInv, Flushed, StreamInv
    <3>2. Apart(more)
      BY <3>1, OwnIsApart DEF StreamInv
    <3>3. Below(more, parts)
      BY <1>2, <2>1, ContinuedBelow DEF FlightInv, Flushed, StreamInv
    <3> QED
      BY <3>1, <3>2, <3>3 DEF Flushed
  <2>2. CASE f.epoch # epoch
    BY <1>2, <2>2 DEF FlightInv
  <2> QED
    BY <2>1, <2>2
<1> HIDE DEF more
<1>4. ASSUME NEW g \in flights' PROVE FlightInv(g)
  <2>1. CASE g \in flights
    BY <2>1 DEF StreamInv
  <2>2. CASE g = [f EXCEPT !.kind = "send", !.to = 0, !.content = more]
    <3>1. g = [by |-> f.by, kind |-> "send", to |-> 0, content |-> more, fresh |-> f.fresh,
               epoch |-> f.epoch]
      BY <1>2, <2>2 DEF FlightInv
    <3>2. g.epoch = f.epoch /\ g.content = more /\ g.fresh = f.fresh
      BY <3>1
    <3>3. g = [by |-> g.by, kind |-> g.kind, to |-> g.to, content |-> g.content,
               fresh |-> g.fresh, epoch |-> g.epoch]
      BY <3>1
    <3> QED
      BY <1>2, <1>3, <3>2, <3>3 DEF FlightInv
  <2> QED
    BY <1>1, <2>1, <2>2
<1>5. rendered' \in Seq(Nat)
  BY <1>1, EmptySeq DEF StreamInv, StreamTypes
<1>6. msg' \in Nat
  <2>1. msg \in Nat /\ (msg' = msg \/ msg' = 0)
    BY <1>1 DEF StreamInv, StreamTypes
  <2> QED
    BY <2>1
<1>7. Flushed(live', epoch)
  BY <1>1, <1>2, <1>3
<1> QED
  BY <1>1, <1>4, <1>5, <1>6, <1>7, TelegramStep

-----------------------------------------------------------------------------

LEMMA NextStream == ASSUME StreamInv, [Next]_vars PROVE StreamInv'
<1>1. CASE UNCHANGED vars
  BY <1>1 DEF vars, StreamInv, StreamTypes, FlightInv, Flushed, Pieces, Apart, Own
<1>2. CASE Next
  BY <1>2, TimerStep, BeginStep, TextStep, FailsStep, EndStep, StoppedStep, FooterStep, CloseStep,
     AnsweredStep, FailedStep, EditTimedOutStep DEF Next
<1> QED
  BY <1>1, <1>2

LEMMA StreamIsTracked == Spec => []StreamInv
<1>1. StreamInv /\ [Next]_vars => StreamInv'
  BY NextStream
<1> QED
  BY InitStream, <1>1, PTL DEF Spec

\* No message shows text twice or out of order (_stream_edit_flush and its
\* overlapping awaits).
THEOREM TextStaysInOrder == Spec => []MessagesInOrder
<1>1. StreamInv => MessagesInOrder
  <2> SUFFICES ASSUME StreamInv PROVE MessagesInOrder
    OBVIOUS
  <2>1. DOMAIN chat = 1..Len(chat) /\ \A m \in 1..Len(chat) : Pieces(chat[m])
    BY LenProperties DEF StreamInv, StreamTypes
  <2>2. \A m \in 1..Len(chat) : DOMAIN chat[m] = 1..Len(chat[m])
    BY <2>1, LenProperties DEF Pieces
  <2> QED
    BY <2>1, <2>2 DEF Pieces, Ascends, MessagesInOrder
<1> QED
  BY StreamIsTracked, <1>1, PTL

\* No message shows text of two prompts, unless the first was stopped or
\* ended by an exception (finalize_stream, and what ends a prompt without it).
THEOREM PromptsStayApart == Spec => []AnswersApart
<1>1. StreamInv => AnswersApart
  <2> SUFFICES ASSUME StreamInv PROVE AnswersApart
    OBVIOUS
  <2>1. DOMAIN chat = 1..Len(chat) /\ \A m \in 1..Len(chat) : Pieces(chat[m]) /\ Apart(chat[m])
    BY LenProperties DEF StreamInv, StreamTypes
  <2>2. \A m \in 1..Len(chat) : ToSet(chat[m]) = {chat[m][i] : i \in 1..Len(chat[m])}
    BY <2>1, LenProperties DEF Pieces, ToSet
  <2> QED
    BY <2>1, <2>2 DEF Apart, AnswersApart
<1> QED
  BY StreamIsTracked, <1>1, PTL

-----------------------------------------------------------------------------
(* FlattenSeq, by induction on the length of a sequence: it is defined by a *)
(* recursive function, whose partial results are a Chain.                   *)

LEMMA LeastNumber ==
    ASSUME NEW S \in SUBSET Nat, S # {}
    PROVE  \E i \in S : \A j \in S : i <= j
<1>1. PICK i \in S : \A j \in S : ~(<<j, i>> \in OpToRel(<, Nat))
  BY NatLessThanWellFounded, WFMin
<1>2. \A j \in S : ~(j < i)
  BY <1>1 DEF OpToRel
<1>3. QED
  BY <1>2

\* The partial results of FlattenSeq.
Links(g, s, n) == \A i \in 1..n : g[i] = IF i = 1 THEN s[i] ELSE g[i - 1] \o s[i]
Chain(g, s, n) == g \in [1..n -> Seq(Nat)] /\ Links(g, s, n)

LEMMA Longer ==
    ASSUME NEW s \in Seq(Seq(Nat)), NEW n \in Nat, n + 1 <= Len(s), NEW g, Chain(g, s, n)
    PROVE  \E h : Chain(h, s, n + 1)
<1> DEFINE last == IF n = 0 THEN s[n + 1] ELSE g[n] \o s[n + 1]
           h == [i \in 1..(n + 1) |-> IF i = n + 1 THEN last ELSE g[i]]
<1>1. s[n + 1] \in Seq(Nat) /\ \A i \in 1..n : g[i] \in Seq(Nat)
  BY ElementOfSeq DEF Chain, Links
<1>2. last \in Seq(Nat)
  BY <1>1, ConcatProperties
<1> HIDE DEF last
<1>3. \A i \in 1..(n + 1) : i = n + 1 \/ i \in 1..n
  OBVIOUS
<1>4. h \in [1..(n + 1) -> Seq(Nat)]
  BY <1>1, <1>2, <1>3
<1>5. ASSUME NEW i \in 1..(n + 1) PROVE h[i] = IF i = 1 THEN s[i] ELSE h[i - 1] \o s[i]
  <2>1. CASE i = n + 1 /\ n = 0
    BY <2>1 DEF last
  <2>2. CASE i = n + 1 /\ n # 0
    <3>1. h[n] = g[n] /\ i - 1 = n /\ i # 1
      BY <2>2
    <3> QED
      BY <2>2, <3>1 DEF last
  <2>3. CASE i # n + 1
    <3>1. i \in 1..n /\ h[i] = g[i]
      BY <1>3, <2>3
    <3>2. i # 1 => i - 1 \in 1..n /\ h[i - 1] = g[i - 1]
      BY <3>1
    <3> QED
      BY <3>1, <3>2 DEF Chain, Links
  <2> QED
    BY <2>1, <2>2, <2>3
<1> QED
  BY <1>4, <1>5 DEF Chain, Links

LEMMA HasChain ==
    ASSUME NEW s \in Seq(Seq(Nat))
    PROVE  \E g : Chain(g, s, Len(s))
<1> DEFINE bad == {n \in Nat : n <= Len(s) /\ ~\E g : Chain(g, s, n)}
<1>1. ASSUME bad # {} PROVE FALSE
  <2>1. PICK n \in bad : \A m \in bad : n <= m
    BY <1>1, LeastNumber
  <2>2. n \in Nat /\ n <= Len(s) /\ ~\E g : Chain(g, s, n)
    BY <2>1
  <2>3. CASE n = 0
    <3>1. Chain([i \in 1..0 |-> <<>>], s, 0)
      BY DEF Chain, Links
    <3> QED
      BY <2>2, <2>3, <3>1
  <2>4. CASE n # 0
    <3>1. n - 1 \in Nat /\ n - 1 <= Len(s) /\ n - 1 + 1 = n /\ ~(n <= n - 1)
      BY <2>2, <2>4, LenProperties
    <3>2. n - 1 \notin bad
      BY <2>1, <3>1
    <3>3. \E g : Chain(g, s, n - 1)
      BY <3>1, <3>2
    <3> QED
      BY <2>2, <3>1, <3>3, Longer
  <2> QED
    BY <2>3, <2>4
<1> QED
  BY <1>1, LenProperties

LEMMA SameChain ==
    ASSUME NEW s, NEW n \in Nat, NEW g, NEW h, Chain(g, s, n), Links(h, s, n)
    PROVE  \A i \in 1..n : h[i] = g[i]
<1> DEFINE bad == {i \in 1..n : h[i] # g[i]}
<1>0. bad \in SUBSET Nat
  OBVIOUS
<1>1. ASSUME bad # {} PROVE FALSE
  <2>1. PICK i \in bad : \A m \in bad : i <= m
    BY <1>0, <1>1, LeastNumber
  <2>2. i \in 1..n /\ h[i] # g[i]
    BY <2>1
  <2>3. CASE i = 1
    BY <2>2, <2>3 DEF Chain, Links
  <2>4. CASE i # 1
    <3>1. i - 1 \in 1..n /\ ~(i <= i - 1)
      BY <2>2, <2>4
    <3>2. h[i - 1] = g[i - 1]
      BY <2>1, <3>1
    <3> QED
      BY <2>2, <2>4, <3>2 DEF Chain, Links
  <2> QED
    BY <2>3, <2>4
<1> QED
  BY <1>1

\* What FlattenSeq computes.
LEMMA Flat ==
    ASSUME NEW s \in Seq(Seq(Nat)), Len(s) # 0, NEW g, Chain(g, s, Len(s))
    PROVE  FlattenSeq(s) = g[Len(s)]
<1>1. g = [i \in 1..Len(s) |-> IF i = 1 THEN s[i] ELSE g[i - 1] \o s[i]]
  BY DEF Chain, Links
<1>2. PICK h : h = [i \in 1..Len(s) |-> IF i = 1 THEN s[i] ELSE h[i - 1] \o s[i]]
               /\ FlattenSeq(s) = h[Len(s)]
  BY <1>1 DEF FlattenSeq
<1>3. Len(s) \in Nat /\ Len(s) \in 1..Len(s)
  BY LenProperties
<1>4. Links(h, s, Len(s))
  BY <1>2 DEF Links
<1>5. \A i \in 1..Len(s) : h[i] = g[i]
  BY <1>3, <1>4, SameChain
<1> QED
  BY <1>2, <1>3, <1>5

LEMMA FlatType ==
    ASSUME NEW s \in Seq(Seq(Nat))
    PROVE  FlattenSeq(s) \in Seq(Nat)
<1>1. CASE Len(s) = 0
  <2>1. s = <<>>
    BY <1>1, EmptySeq
  <2>2. FlattenSeq(s) = <<>>
    BY <1>1, <2>1 DEF FlattenSeq
  <2> QED
    BY <2>2, EmptySeq
<1>2. CASE Len(s) # 0
  <2>1. PICK g : Chain(g, s, Len(s))
    BY HasChain
  <2>2. Len(s) \in 1..Len(s)
    BY <1>2, LenProperties
  <2> QED
    BY <1>2, <2>1, <2>2, Flat DEF Chain, Links
<1> QED
  BY <1>1, <1>2

LEMMA FlatAppend ==
    ASSUME NEW s \in Seq(Seq(Nat)), NEW e \in Seq(Nat)
    PROVE  FlattenSeq(Append(s, e)) = FlattenSeq(s) \o e
<1> DEFINE t == Append(s, e)
           n == Len(s)
<1>1. n \in Nat /\ t \in Seq(Seq(Nat)) /\ Len(t) = n + 1 /\ t[n + 1] = e
      /\ \A i \in 1..n : t[i] = s[i]
  BY AppendProperties, LenProperties
<1> HIDE DEF t
<1>2. PICK h : Chain(h, t, n + 1)
  BY <1>1, HasChain
<1>3. FlattenSeq(t) = h[n + 1]
  BY <1>1, <1>2, Flat
<1>4. CASE n = 0
  <2>1. s = <<>>
    BY <1>4, EmptySeq
  <2>2. FlattenSeq(s) = <<>>
    BY <1>4, <2>1 DEF FlattenSeq
  <2>3. h[n + 1] = e
    BY <1>1, <1>2, <1>4 DEF Chain, Links
  <2> QED
    BY <1>3, <2>2, <2>3, ConcatEmptySeq DEF t
<1>5. CASE n # 0
  <2>1. PICK g : Chain(g, s, n)
    BY HasChain
  <2>2. FlattenSeq(s) = g[n] /\ n \in 1..n
    BY <1>1, <1>5, <2>1, Flat
  <2>3. Links(h, s, n)
    <3>1. \A i \in 1..n : i \in 1..(n + 1)
      BY <1>1
    <3> QED
      BY <1>1, <1>2, <3>1 DEF Chain, Links
  <2>4. h[n] = g[n]
    BY <1>1, <2>1, <2>2, <2>3, SameChain
  <2>5. h[n + 1] = h[n] \o t[n + 1]
    <3>1. n + 1 \in 1..(n + 1) /\ n + 1 # 1 /\ (n + 1) - 1 = n
      BY <1>1, <1>5
    <3> QED
      BY <1>2, <3>1 DEF Chain, Links
  <2> QED
    BY <1>1, <1>3, <2>2, <2>4, <2>5 DEF t
<1> QED
  BY <1>4, <1>5

LEMMA AllAssociate == \A s, t, u \in Seq(Nat) : (s \o t) \o u = s \o (t \o u)
BY ConcatAssociative

LEMMA FlatLonger ==
    ASSUME NEW s \in Seq(Seq(Nat)), Len(s) # 0, NEW e \in Seq(Nat)
    PROVE  FlattenSeq([s EXCEPT ![Len(s)] = s[Len(s)] \o e]) = FlattenSeq(s) \o e
<1>1. s # <<>>
  BY EmptySeq
<1>2. PICK front \in Seq(Seq(Nat)), r \in Seq(Nat) : s = Append(front, r)
  BY <1>1, SequenceEmptyOrAppend
<1>3. /\ Len(front) \in Nat /\ Len(s) = Len(front) + 1 /\ s[Len(s)] = r
      /\ \A i \in 1..Len(front) : s[i] = front[i]
  BY <1>2, AppendProperties, LenProperties
<1>4. r \o e \in Seq(Nat)
  BY ConcatProperties
<1> DEFINE t == [s EXCEPT ![Len(s)] = s[Len(s)] \o e]
           u == Append(front, r \o e)
<1>5. Len(s) \in 1..Len(s)
  BY <1>3
<1>6. /\ t \in Seq(Seq(Nat)) /\ Len(t) = Len(s)
      /\ \A j \in 1..Len(s) : t[j] = IF j = Len(s) THEN r \o e ELSE s[j]
  BY <1>3, <1>4, <1>5, ExceptSeq
<1>7. /\ u \in Seq(Seq(Nat)) /\ Len(u) = Len(front) + 1 /\ u[Len(front) + 1] = r \o e
      /\ \A i \in 1..Len(front) : u[i] = front[i]
  BY <1>4, AppendProperties
<1> HIDE DEF t, u
<1>8. t = u
  <2>1. ASSUME NEW j \in 1..Len(s) PROVE t[j] = u[j]
    <3>1. j = Len(s) \/ j \in 1..Len(front)
      BY <1>3
    <3>2. j \in 1..Len(front) => j # Len(s)
      BY <1>3
    <3> QED
      BY <1>3, <1>6, <1>7, <3>1, <3>2
  <2> QED
    BY <1>3, <1>6, <1>7, <2>1, SeqEqual
<1>9. FlattenSeq(u) = FlattenSeq(front) \o (r \o e)
  BY <1>4, FlatAppend DEF u
<1>10. FlattenSeq(s) = FlattenSeq(front) \o r
  BY <1>2, FlatAppend
<1>11. FlattenSeq(front) \in Seq(Nat)
  BY FlatType
<1>12. (FlattenSeq(front) \o r) \o e = FlattenSeq(front) \o (r \o e)
  <2>1. \A f \in Seq(Nat) : (f \o r) \o e = f \o (r \o e)
    BY ConcatAssociative
  <2> QED
    BY <1>11, <2>1
<1> QED
  BY <1>8, <1>9, <1>10, <1>12 DEF t

\* Replacing what a message shows by the same does nothing.
LEMMA SameContents ==
    ASSUME NEW s \in Seq(Seq(Nat)), NEW i \in 1..Len(s)
    PROVE  [s EXCEPT ![i] = s[i]] = s
BY LenProperties

-----------------------------------------------------------------------------
(* All the text is shown, if Telegram answers in time.                     *)

\* The live message lacks the end of the live text, and what is buffered.
Owed == \E gap \in Seq(Nat) :
           live = rendered \o gap /\ (FlattenSeq(chat) \o gap) \o parts = AllText

\* The request under way carries the live text; only the worker's are awaited
\* after the end of a prompt.
FlightAccount(f) ==
    /\ f.epoch = epoch /\ f.content = live /\ live # <<>> /\ f.kind \in Kinds
    /\ f.by \in {"timer", "worker"}
    /\ f.kind = "send" => msg = 0
    /\ f.kind # "send" => msg # 0 /\ f.to = msg
    /\ f.kind = "footer" <=> stage = "footer"
    /\ f.kind = "footer" => live = rendered
    /\ f.kind = "edit" /\ f.by = "timer" => live # rendered
    /\ stage # "idle" /\ (stage \notin {"running", "failed"} => f.by = "worker")

\* The live message is the last one; before it is sent, and after the end of a
\* prompt, the chat is complete but for the live text and what is buffered.
Accounts ==
    /\ \A f, g \in flights : f = g
    /\ \A f \in flights : FlightAccount(f)
    /\ msg # 0 => msg = Len(chat) /\ rendered # <<>> /\ chat[msg] = rendered /\ Owed
    /\ msg = 0 /\ stage # "footer" => /\ (FlattenSeq(chat) \o live) \o parts = AllText
                                      /\ flights = {} => live = <<>>
    /\ stage \notin {"running", "failed"} /\ (flights = {} \/ stage = "footer") => FlattenSeq(chat) = AllText

Calm == calm /\ ~cut

AccountInv ==
    /\ calm \in BOOLEAN /\ cut \in BOOLEAN
    /\ stage \notin {"running", "failed"} => parts = <<>> /\ timer = FALSE
    /\ Calm => Accounts

LEMMA Texts ==
    ASSUME StreamInv
    PROVE  /\ live \in Seq(Nat) /\ parts \in Seq(Nat) /\ rendered \in Seq(Nat)
           /\ chat \in Seq(Seq(Nat)) /\ FlattenSeq(chat) \in Seq(Nat)
           /\ AllText \in Seq(Nat) /\ <<>> \in Seq(Nat)
<1>1. 1..came \subseteq Nat
  OBVIOUS
<1>2. live \in Seq(Nat) /\ parts \in Seq(Nat)
  BY <1>1, SeqMonotonic DEF StreamInv, Flushed, Pieces
<1>3. AllText \in Seq(Nat)
  BY DEF AllText, StreamInv, StreamTypes
<1> QED
  BY <1>2, <1>3, FlatType, EmptySeq DEF StreamInv, StreamTypes

\* What is left of the live text when the beginning is on display.
LEMMA UnsentIs ==
    ASSUME rendered \in Seq(Nat), rendered # <<>>, NEW gap \in Seq(Nat)
    PROVE  Unsent(rendered \o gap) = gap
<1> DEFINE text == rendered \o gap
           n == Len(rendered)
<1>1. n \in Nat \ {0} /\ Len(gap) \in Nat /\ text \in Seq(Nat) /\ Len(text) = n + Len(gap)
  BY EmptySeq, LenProperties, ConcatProperties
<1>2. SubSeq(text, 1, n) = SubSeq(rendered, 1, n)
  BY <1>1, SubSeqOfConcat1
<1>3. IsPrefix(rendered, text)
  BY <1>1, <1>2 DEF IsPrefix
<1>4. SubSeq(text, n + 1, Len(text)) = gap
  <2>1. CASE gap = <<>>
    <3>1. Len(text) < n + 1
      BY <1>1, <2>1
    <3> QED
      BY <1>1, <2>1, <3>1, SubSeqEmpty
  <2>2. CASE gap # <<>>
    <3>1. n + 1 \in (n + 1)..(n + Len(gap)) /\ n + Len(gap) \in (n + 1)..(n + Len(gap))
      BY <1>1, <2>2, EmptySeq
    <3>2. SubSeq(text, n + 1, n + Len(gap)) = SubSeq(gap, (n + 1) - n, (n + Len(gap)) - n)
      BY <3>1, SubSeqOfConcat2
    <3>3. (n + 1) - n = 1 /\ (n + Len(gap)) - n = Len(gap)
      BY <1>1
    <3> QED
      BY <1>1, <3>2, <3>3, SubSeqFull
  <2> QED
    BY <2>1, <2>2
<1> QED
  BY <1>3, <1>4 DEF Unsent

LEMMA Concats ==
    ASSUME NEW s \in Seq(Nat), NEW t \in Seq(Nat), NEW u \in Seq(Nat)
    PROVE  /\ s \o t \in Seq(Nat) /\ (s \o t) \o u = s \o (t \o u)
           /\ s \o <<>> = s /\ <<>> \o s = s
           /\ s \o t = s => t = <<>>
           /\ s \o t = <<>> => s = <<>> /\ t = <<>>
BY ConcatProperties, ConcatAssociative, ConcatEmptySeq, ConcatEqualIffEmpty

\* A flush of the timer while the prompt runs or after it failed, or of the
\* worker at its end.
Flushes(by, force) ==
    /\ Flush(by, force)
    /\ \/ by = "timer" /\ force = FALSE /\ stage \in {"running", "failed"} /\ stage' = stage
       \/ by = "worker" /\ force = TRUE /\ stage = "running" /\ stage' \in {"final", "stopping"}
    /\ UNCHANGED <<came, epoch, chat>>

Taken(by, kind, to, content, fresh) ==
    [by |-> by, kind |-> kind, to |-> to, content |-> content, fresh |-> fresh, epoch |-> epoch]

\* What Flush does, case by case: there is nothing to show, ...
NothingTaken(force) ==
    /\ (~force /\ parts = <<>>) \/ live \o parts = <<>>
    /\ timer' = FALSE
    /\ UNCHANGED <<parts, flights, calm, cut, live, rendered, msg>>

\* ... or text to show, as a new message, ...
TextTaken == live \o parts # <<>> /\ parts' = <<>>
More == Continuation(parts, live \o parts)

SendTaken(by) ==
    /\ msg = 0 /\ TextTaken /\ timer' = FALSE
    /\ live' = live \o parts /\ UNCHANGED <<rendered, msg, cut>>
    /\ flights' = flights \cup {Taken(by, "send", 0, live \o parts, parts)}
    /\ calm' = (calm /\ flights = {})

\* ... in a message after the live one, which is full, unless all is on
\* display, ...
AllOnDisplay(force) ==
    /\ msg # 0 /\ TextTaken /\ timer' = FALSE /\ More = <<>> /\ (force \/ parts # <<>>)
    /\ live' = live \o parts /\ UNCHANGED <<rendered, msg, flights, calm, cut>>

MoreTaken(by) ==
    /\ msg # 0 /\ TextTaken /\ timer' = FALSE /\ More # <<>>
    /\ live' = More /\ rendered' = <<>> /\ msg' = 0
    /\ cut' = (cut \/ (parts # <<>> /\ rendered # live))
    /\ flights' = flights \cup {Taken(by, "send", 0, More, parts)}
    /\ calm' = (calm /\ flights = {})

\* ... or in the live message, now or later.
EditTaken(by, force) ==
    /\ msg # 0 /\ TextTaken /\ timer' = FALSE /\ (force \/ parts # <<>>)
    /\ live' = live \o parts /\ UNCHANGED <<rendered, msg, cut>>
    /\ flights' = flights \cup {Taken(by, "edit", msg, live \o parts, parts)}
    /\ calm' = (calm /\ flights = {})

EditPutOff(force) ==
    /\ msg # 0 /\ TextTaken /\ ~force
    /\ live' = live \o parts /\ UNCHANGED <<rendered, msg, cut, flights>>
    /\ calm' = (calm /\ flights = {})

LEMMA FlushCases ==
    ASSUME NEW by, NEW force \in BOOLEAN, Flush(by, force)
    PROVE  \/ NothingTaken(force) \/ SendTaken(by) \/ AllOnDisplay(force) \/ MoreTaken(by)
           \/ EditTaken(by, force) \/ EditPutOff(force)
<1> DEFINE nothing == (~force /\ parts = <<>>) \/ live \o parts = <<>>
<1>1. CASE nothing
  BY <1>1 DEF Flush, NothingTaken
<1>2. CASE ~nothing /\ msg = 0
  BY <1>2 DEF Flush, Request, Buffered, Taken, SendTaken, TextTaken
<1>3. CASE ~nothing /\ msg # 0 /\ Len(live \o parts) >= Limit
  <2>1. CASE More = <<>>
    BY <1>3, <2>1 DEF Flush, Buffered, AllOnDisplay, TextTaken, More
  <2>2. CASE More # <<>>
    BY <1>3, <2>2 DEF Flush, Request, Buffered, Taken, MoreTaken, TextTaken, More
  <2> QED
    BY <2>1, <2>2
<1>4. CASE ~nothing /\ msg # 0 /\ ~(Len(live \o parts) >= Limit)
  BY <1>4 DEF Flush, Request, Buffered, Taken, EditTaken, EditPutOff, TextTaken
<1> QED
  BY <1>1, <1>2, <1>3, <1>4

LEMMA NewFlight ==
    ASSUME NEW f, NEW by, NEW kind, NEW to, NEW content, NEW fresh,
           f = Taken(by, kind, to, content, fresh)
    PROVE  /\ f.by = by /\ f.kind = kind /\ f.to = to /\ f.content = content
           /\ f.fresh = fresh /\ f.epoch = epoch
BY DEF Taken

\* A flush leaves the account in order.
LEMMA FlushAccounts ==
    ASSUME StreamInv, AccountInv, NEW by, NEW force \in BOOLEAN, Flushes(by, force), Calm'
    PROVE  Accounts'
<1> DEFINE F == FlattenSeq(chat)
<1>1. /\ live \in Seq(Nat) /\ parts \in Seq(Nat) /\ rendered \in Seq(Nat)
      /\ F \in Seq(Nat) /\ AllText \in Seq(Nat)
      /\ live \o parts \in Seq(Nat)
  BY Texts, Concats
<1>2. AllText' = AllText /\ UNCHANGED <<chat, epoch>> /\ stage \in {"running", "failed"}
      /\ stage' # "footer" /\ stage' # "idle"
  BY DEF Flushes, AllText
<1>3. Calm /\ Accounts
  BY FlushCases DEF AccountInv, Calm, Flushes, NothingTaken, SendTaken, AllOnDisplay, MoreTaken,
                    EditTaken, EditPutOff
<1>4. by = "timer" => stage' \in {"running", "failed"} /\ ~force
  BY DEF Flushes
<1>5. by = "timer" \/ by = "worker"
  BY DEF Flushes
<1>6. msg # 0 => live # <<>>
  BY <1>1, <1>3, Concats DEF Accounts, Owed
<1>7. CASE NothingTaken(force)
  <2>1. UNCHANGED <<parts, flights, live, rendered, msg>>
    BY <1>7 DEF NothingTaken
  <2>2. CASE stage' \in {"running", "failed"}
    BY <1>2, <1>3, <2>1, <2>2 DEF Accounts, FlightAccount, Owed
  <2>3. CASE stage' \notin {"running", "failed"}
    <3>1. live = <<>> /\ parts = <<>>
      BY <1>1, <1>4, <1>5, <1>7, <2>3, Concats DEF NothingTaken, Flushes
    <3>2. msg = 0 /\ flights = {}
      BY <1>3, <1>6, <3>1 DEF Accounts, FlightAccount
    <3>3. F = AllText
      BY <1>1, <1>2, <1>3, <3>1, <3>2, Concats DEF Accounts
    <3> QED
      BY <1>2, <1>3, <2>1, <3>1, <3>2, <3>3 DEF Accounts
  <2> QED
    BY <2>2, <2>3
<1>8. CASE SendTaken(by)
  <2>0. flights = {} /\ msg = 0
    BY <1>8 DEF SendTaken, Calm
  <2> PICK f : f = Taken(by, "send", 0, live \o parts, parts)
    OBVIOUS
  <2>1. flights' = {f} /\ live' = live \o parts /\ parts' = <<>> /\ msg' = 0
        /\ live' # <<>>
    BY <1>8, <2>0 DEF SendTaken, TextTaken
  <2>2. (F \o live') \o parts' = AllText
    <3>1. live = <<>> /\ (F \o live) \o parts = AllText
      BY <1>2, <1>3, <2>0 DEF Accounts
    <3>2. (F \o live) \o parts = F \o (live \o parts)
      BY <1>1, Concats
    <3>3. (F \o (live \o parts)) \o <<>> = F \o (live \o parts)
      BY <1>1, Concats
    <3> QED
      BY <2>1, <3>1, <3>2, <3>3
  <2>3. FlightAccount(f)'
    BY <1>2, <1>4, <1>5, <2>1 DEF FlightAccount, Taken, Kinds
  <2>4. FlattenSeq(chat') = F
    BY <1>2
  <2>5. \A g \in flights' : g = f /\ FlightAccount(g)'
    BY <2>1, <2>3
  <2> QED
    BY <1>2, <2>1, <2>2, <2>4, <2>5 DEF Accounts
<1>9. CASE AllOnDisplay(force)
  <2>1. live' = live \o parts /\ parts' = <<>> /\ UNCHANGED <<rendered, msg, flights>> /\ msg # 0
        /\ live' # <<>>
    BY <1>9 DEF AllOnDisplay, TextTaken
  <2>2. parts = <<>> /\ Unsent(live) = <<>>
    BY <1>1, <1>9, Concats DEF AllOnDisplay, More, Continuation
  <2>3. PICK gap \in Seq(Nat) : live = rendered \o gap /\ (F \o gap) \o parts = AllText
    BY <1>3, <2>1 DEF Accounts, Owed
  <2>4. rendered # <<>>
    BY <1>3, <2>1 DEF Accounts
  <2>5. gap = <<>>
    BY <1>1, <2>2, <2>3, <2>4, UnsentIs
  <2>6. live' = live /\ parts' = parts /\ live = rendered /\ F = AllText
    BY <1>1, <2>1, <2>2, <2>3, <2>5, Concats
  <2>7. ASSUME NEW f \in flights PROVE FlightAccount(f)'
    <3>1. FlightAccount(f)
      BY <1>3 DEF Accounts
    <3>2. f.kind = "edit"
      BY <1>2, <2>1, <3>1 DEF FlightAccount, Kinds
    <3>3. f.by # "timer"
      BY <2>6, <3>1, <3>2 DEF FlightAccount
    <3> QED
      BY <1>2, <2>1, <2>6, <3>1, <3>2, <3>3 DEF FlightAccount
  <2>8. Owed'
    BY <1>2, <2>1, <2>3, <2>6 DEF Owed
  <2> QED
    BY <1>2, <1>3, <2>1, <2>6, <2>7, <2>8 DEF Accounts
<1>10. CASE MoreTaken(by)
  <2> PICK f : f = Taken(by, "send", 0, More, parts)
    OBVIOUS
  <2>0. flights = {} /\ msg # 0 /\ (parts = <<>> \/ rendered = live)
    BY <1>10 DEF MoreTaken, Calm
  <2>1. flights' = {f} /\ live' = More /\ parts' = <<>> /\ msg' = 0 /\ live' # <<>>
    <3>1. flights' = {f}
      BY <1>10, <2>0 DEF MoreTaken
    <3> QED
      BY <1>10, <3>1 DEF MoreTaken, TextTaken
  <2>2. PICK gap \in Seq(Nat) : live = rendered \o gap /\ (F \o gap) \o parts = AllText
    BY <1>3, <2>0 DEF Accounts, Owed
  <2>3. rendered # <<>>
    BY <1>3, <2>0 DEF Accounts
  <2>4. F \o More = AllText
    <3>1. CASE parts = <<>>
      <4>1. More = gap
        BY <1>1, <2>2, <2>3, <3>1, Concats, UnsentIs DEF More, Continuation
      <4>2. F \o gap \in Seq(Nat)
        BY <1>1, Concats
      <4>3. (F \o gap) \o <<>> = F \o gap
        BY <1>1, <4>2, Concats
      <4> QED
        BY <2>2, <3>1, <4>1, <4>3
    <3>2. CASE parts # <<>>
      <4>1. gap = <<>>
        BY <1>1, <2>0, <2>2, <3>2, Concats
      <4>2. F \o gap = F
        BY <1>1, <4>1, Concats
      <4> QED
        BY <2>2, <3>2, <4>2 DEF More, Continuation
    <3> QED
      BY <3>1, <3>2
  <2>5. (F \o live') \o parts' = AllText
    BY <1>1, <2>1, <2>4, Concats
  <2>6. FlightAccount(f)'
    BY <1>2, <1>4, <1>5, <2>1 DEF FlightAccount, Taken, Kinds
  <2>7. FlattenSeq(chat') = F
    BY <1>2
  <2>8. \A g \in flights' : g = f /\ FlightAccount(g)'
    BY <2>1, <2>6
  <2> QED
    BY <1>2, <2>1, <2>5, <2>7, <2>8 DEF Accounts
<1>11. CASE EditTaken(by, force) \/ EditPutOff(force)
  <2>0. flights = {} /\ msg # 0 /\ live' = live \o parts /\ live' # <<>> /\ parts' = <<>>
        /\ UNCHANGED <<rendered, msg>>
    BY <1>11 DEF EditTaken, EditPutOff, TextTaken, Calm
  <2>1. msg = Len(chat) /\ rendered # <<>> /\ chat[msg] = rendered
    BY <1>3, <2>0 DEF Accounts
  <2>2. PICK gap \in Seq(Nat) : live = rendered \o gap /\ (F \o gap) \o parts = AllText
    BY <1>3, <2>0 DEF Accounts, Owed
  <2>3. /\ gap \o parts \in Seq(Nat) /\ live' = rendered \o (gap \o parts)
        /\ (F \o gap) \o parts = F \o (gap \o parts)
    <3>1. gap \o parts \in Seq(Nat)
      BY <1>1, Concats
    <3>2. \A s \in Seq(Nat) : (s \o gap) \o parts = s \o (gap \o parts)
      <4>1. parts \in Seq(Nat)
        BY <1>1
      <4> QED
        BY <4>1, AllAssociate
    <3>3. (rendered \o gap) \o parts = rendered \o (gap \o parts)
      BY <1>1, <3>2
    <3>4. (F \o gap) \o parts = F \o (gap \o parts)
      BY <1>1, <3>2
    <3> QED
      BY <2>0, <2>2, <3>1, <3>3, <3>4
  <2>4. (F \o (gap \o parts)) \o parts' = AllText
    <3>1. F \o (gap \o parts) \in Seq(Nat)
      BY <1>1, <2>3, Concats
    <3> QED
      BY <1>1, <2>0, <2>2, <2>3, <3>1, Concats
  <2>5. Owed'
    BY <1>2, <2>0, <2>3, <2>4 DEF Owed
  <2>6. CASE EditTaken(by, force)
    <3> PICK f : f = Taken(by, "edit", msg, live \o parts, parts)
      OBVIOUS
    <3>1. flights' = {f}
      BY <2>0, <2>6 DEF EditTaken
    <3>2. by = "timer" => live' # rendered'
      <4>1. SUFFICES ASSUME by = "timer" PROVE live' # rendered
        BY <2>0
      <4>2. parts # <<>>
        BY <1>4, <2>6, <4>1 DEF EditTaken
      <4>3. gap \o parts # <<>>
        BY <1>1, <4>2, Concats
      <4> QED
        BY <1>1, <2>3, <4>3, Concats
    <3>3. FlightAccount(f)'
      BY <1>2, <1>4, <1>5, <2>0, <3>2 DEF FlightAccount, Taken, Kinds
    <3>4. \A g \in flights' : g = f /\ FlightAccount(g)'
      BY <3>1, <3>3
    <3> QED
      BY <1>2, <2>0, <2>1, <2>5, <3>1, <3>4 DEF Accounts
  <2>7. CASE EditPutOff(force)
    <3>1. stage' \in {"running", "failed"} /\ flights' = {}
      BY <2>0, <2>7 DEF EditPutOff, Flushes
    <3> QED
      BY <1>2, <2>0, <2>1, <2>5, <3>1 DEF Accounts
  <2> QED
    BY <1>11, <2>6, <2>7
<1> QED
  BY <1>7, <1>8, <1>9, <1>10, <1>11, FlushCases DEF Flushes

LEMMA FlushAccountStep ==
    ASSUME StreamInv, AccountInv, NEW by, NEW force \in BOOLEAN, Flushes(by, force)
    PROVE  AccountInv'
<1>1. stage' \notin {"running", "failed"} => parts' = <<>> /\ timer' = FALSE
  <2> SUFFICES ASSUME stage' \notin {"running", "failed"} PROVE parts' = <<>> /\ timer' = FALSE
    OBVIOUS
  <2>1. force = TRUE
    BY DEF Flushes
  <2>2. CASE NothingTaken(force)
    <3>1. live \o parts = <<>>
      BY <2>1, <2>2 DEF NothingTaken
    <3>2. parts = <<>>
      BY <3>1, Texts, Concats
    <3> QED
      BY <2>2, <3>2 DEF NothingTaken
  <2>3. CASE SendTaken(by) \/ AllOnDisplay(force) \/ MoreTaken(by) \/ EditTaken(by, force)
    <3>1. parts' = <<>>
      BY <2>3 DEF SendTaken, AllOnDisplay, MoreTaken, EditTaken, TextTaken
    <3>2. timer' = FALSE
      BY <2>3 DEF SendTaken, AllOnDisplay, MoreTaken, EditTaken
    <3> QED
      BY <3>1, <3>2
  <2>4. CASE EditPutOff(force)
    BY <2>1, <2>4 DEF EditPutOff
  <2> QED
    BY <2>2, <2>3, <2>4, FlushCases DEF Flushes
<1>2. calm' \in BOOLEAN /\ cut' \in BOOLEAN
  BY FlushCases DEF Flushes, AccountInv, NothingTaken, SendTaken, AllOnDisplay, MoreTaken,
                    EditTaken, EditPutOff
<1> QED
  BY <1>1, <1>2, FlushAccounts DEF AccountInv

LEMMA InitAccount == Init => AccountInv
<1> SUFFICES ASSUME Init PROVE AccountInv
  OBVIOUS
<1>1. StreamInv
  BY InitStream
<1>2. FlattenSeq(chat) = <<>>
  BY DEF Init, FlattenSeq
<1>3. AllText = <<>>
  <2>1. AllText \in Seq(Nat) /\ Len(AllText) = 0
    BY DEF Init, AllText
  <2> QED
    BY <2>1, EmptySeq
<1>4. <<>> \o <<>> = <<>>
  BY <1>1, Texts, Concats
<1>5. Accounts
  BY <1>2, <1>3, <1>4 DEF Init, Accounts
<1> QED
  BY <1>5 DEF Init, AccountInv

LEMMA TimerAccount == ASSUME StreamInv, AccountInv, TimerFires PROVE AccountInv'
<1>1. stage \in {"running", "failed"}
  BY DEF TimerFires, AccountInv
<1>2. Flushes("timer", FALSE)
  BY <1>1 DEF TimerFires, Flushes, input
<1> QED
  BY <1>2, FlushAccountStep

LEMMA EndAccount ==
    ASSUME StreamInv, AccountInv, End("final") \/ End("stopping") PROVE AccountInv'
<1>1. Flushes("worker", TRUE)
  BY DEF End, Flushes, input
<1> QED
  BY <1>1, FlushAccountStep

LEMMA BeginAccount == ASSUME StreamInv, AccountInv, Begin PROVE AccountInv'
<1>1. /\ UNCHANGED <<came, parts, live, rendered, msg, flights, epoch, chat, calm, cut>>
      /\ stage \in {"idle", "failed"} /\ stage' = "running" /\ AllText' = AllText
  BY DEF Begin, input, buffer, AllText
<1>2. ASSUME Calm' PROVE Accounts'
  <2>1. Accounts
    BY <1>1, <1>2 DEF AccountInv, Calm
  <2> QED
    BY <1>1, <2>1 DEF Accounts, FlightAccount, Owed
<1> QED
  BY <1>1, <1>2 DEF AccountInv

LEMMA FailsAccount == ASSUME StreamInv, AccountInv, PromptFails PROVE AccountInv'
<1>1. /\ UNCHANGED <<came, parts, live, rendered, msg, flights, epoch, chat, calm, cut>>
      /\ stage = "running" /\ stage' = "failed" /\ AllText' = AllText
  BY DEF PromptFails, input, buffer, AllText
<1>2. ASSUME Calm' PROVE Accounts'
  <2>1. Accounts
    BY <1>1, <1>2 DEF AccountInv, Calm
  <2> QED
    BY <1>1, <2>1 DEF Accounts, FlightAccount, Owed
<1> QED
  BY <1>1, <1>2 DEF AccountInv

LEMMA TextAccount == ASSUME StreamInv, AccountInv, Text PROVE AccountInv'
<1>1. /\ UNCHANGED <<live, rendered, msg, flights, stage, epoch, chat, calm, cut>>
      /\ stage = "running" /\ came' = came + 1 /\ parts' = Append(parts, came + 1)
  BY DEF Text
<1>2. came \in Nat /\ came + 1 \in Nat
  BY DEF StreamInv, StreamTypes
<1>3. AllText' = Append(AllText, came + 1)
  BY <1>1, <1>2 DEF AllText
<1>4. ASSUME NEW s \in Seq(Nat), s \o parts = AllText PROVE s \o parts' = AllText'
  <2>1. parts \in Seq(Nat)
    BY Texts
  <2>2. s \o Append(parts, came + 1) = Append(s \o parts, came + 1)
    BY <1>2, <2>1
  <2> QED
    BY <1>1, <1>3, <1>4, <2>2
<1>5. ASSUME Calm' PROVE Accounts'
  <2>1. Accounts
    BY <1>1, <1>5 DEF AccountInv, Calm
  <2>2. \A f \in flights' : FlightAccount(f)'
    BY <1>1, <2>1 DEF Accounts, FlightAccount
  <2>3. Owed => Owed'
    <3> SUFFICES ASSUME Owed PROVE Owed'
      OBVIOUS
    <3>1. PICK gap \in Seq(Nat) :
             live = rendered \o gap /\ (FlattenSeq(chat) \o gap) \o parts = AllText
      BY DEF Owed
    <3>2. FlattenSeq(chat) \o gap \in Seq(Nat)
      BY Texts, Concats
    <3>3. (FlattenSeq(chat) \o gap) \o parts' = AllText'
      BY <1>4, <3>1, <3>2
    <3> QED
      BY <1>1, <3>1, <3>3 DEF Owed
  <2>4. FlattenSeq(chat) \o live \in Seq(Nat)
    BY Texts, Concats
  <2>5. msg = 0 => (FlattenSeq(chat') \o live') \o parts' = AllText'
    BY <1>1, <1>4, <2>1, <2>4 DEF Accounts
  <2> QED
    BY <1>1, <2>1, <2>2, <2>3, <2>5 DEF Accounts
<1> QED
  BY <1>1, <1>5 DEF AccountInv

LEMMA StoppedAccount == ASSUME StreamInv, AccountInv, Stopped PROVE AccountInv'
<1>1. /\ UNCHANGED <<came, parts, live, rendered, msg, flights, epoch, chat, calm, cut>>
      /\ stage = "stopping" /\ stage' = "idle" /\ timer' = FALSE /\ AllText' = AllText
  BY DEF Stopped, input, AllText
<1>2. ASSUME Calm' PROVE Accounts'
  <2>1. Accounts
    BY <1>1, <1>2 DEF AccountInv, Calm
  <2>2. flights = {}
    BY <1>1, <2>1 DEF Stopped, Awaited, Accounts, FlightAccount
  <2> QED
    BY <1>1, <2>1, <2>2 DEF Accounts, Owed
<1> QED
  BY <1>1, <1>2 DEF AccountInv

\* When a prompt has ended and its last flush was answered, the live text is
\* on display.
LEMMA FooterAccount == ASSUME StreamInv, AccountInv, CostFooter PROVE AccountInv'
<1> DEFINE F == FlattenSeq(chat)
<1>1. /\ UNCHANGED <<came, parts, live, rendered, msg, timer, epoch, chat, cut>>
      /\ stage = "final" /\ stage' = "footer" /\ AllText' = AllText
  BY DEF CostFooter, input, buffer, AllText
<1>2. calm' \in BOOLEAN /\ (calm' => calm)
  BY DEF CostFooter, Request, AccountInv
<1>3. ASSUME Calm' PROVE Accounts'
  <2>1. Accounts
    BY <1>1, <1>2, <1>3 DEF AccountInv, Calm
  <2>2. flights = {}
    BY <1>1, <2>1 DEF CostFooter, Awaited, Accounts, FlightAccount
  <2>3. F = AllText /\ FlattenSeq(chat') = F
    BY <1>1, <2>1, <2>2 DEF Accounts
  <2>4. CASE msg = 0
    <3>1. flights' = {}
      BY <2>2, <2>4 DEF CostFooter
    <3> QED
      BY <1>1, <2>3, <2>4, <3>1 DEF Accounts
  <2>5. CASE msg # 0
    <3>1. PICK gap \in Seq(Nat) : live = rendered \o gap /\ (F \o gap) \o parts = AllText
      BY <2>1, <2>5 DEF Accounts, Owed
    <3>2. live = rendered
      <4>0. F \in Seq(Nat) /\ rendered \in Seq(Nat)
        BY Texts
      <4>1. F \o gap \in Seq(Nat) /\ parts = <<>>
        BY <1>1, <4>0, Concats DEF AccountInv
      <4>2. (F \o gap) \o <<>> = F \o gap
        BY <4>1, Concats
      <4>3. F \o gap = F
        BY <2>3, <3>1, <4>1, <4>2
      <4>4. gap = <<>>
        BY <4>0, <4>3, Concats
      <4> QED
        BY <3>1, <4>0, <4>4, Concats
    <3>3. live # <<>>
      BY <2>1, <2>5, <3>2 DEF Accounts
    <3> PICK f : f = Taken("worker", "footer", msg, live, <<>>)
      OBVIOUS
    <3>4. flights' = {f}
      BY <2>2, <2>5 DEF CostFooter, Request, Taken
    <3>5. FlightAccount(f)'
      BY <1>1, <2>5, <3>2, <3>3 DEF FlightAccount, Taken, Kinds
    <3>6. \A g \in flights' : g = f /\ FlightAccount(g)'
      BY <3>4, <3>5
    <3>7. Owed'
      BY <1>1, <3>1 DEF Owed
    <3> QED
      BY <1>1, <2>1, <2>3, <2>5, <3>6, <3>7 DEF Accounts
  <2> QED
    BY <2>4, <2>5
<1> QED
  BY <1>1, <1>2, <1>3 DEF AccountInv

LEMMA CloseAccount == ASSUME StreamInv, AccountInv, Close PROVE AccountInv'
<1>1. /\ UNCHANGED <<flights, chat, calm, cut, came>> /\ msg' = 0 /\ live' = <<>> /\ parts' = <<>>
      /\ rendered' = <<>> /\ timer' = FALSE
      /\ stage = "footer" /\ stage' = "idle" /\ AllText' = AllText
  BY DEF Close, NextMessage, input, AllText
<1>2. ASSUME Calm' PROVE Accounts'
  <2>1. Accounts
    BY <1>1, <1>2 DEF AccountInv, Calm
  <2>2. flights = {}
    BY <1>1, <2>1 DEF Close, Awaited, Accounts, FlightAccount
  <2>3. FlattenSeq(chat') = AllText' /\ AllText \in Seq(Nat)
    BY <1>1, <2>1, Texts DEF Accounts
  <2>4. (AllText \o <<>>) \o <<>> = AllText
    BY <2>3, Concats
  <2> QED
    BY <1>1, <2>2, <2>3, <2>4 DEF Accounts
<1> QED
  BY <1>1, <1>2 DEF AccountInv

\* The answer settles the account of the only request under way.
LEMMA AnsweredAccount ==
    ASSUME StreamInv, AccountInv, NEW f \in flights, Answered(f) PROVE AccountInv'
<1> DEFINE F == FlattenSeq(chat)
<1>1. /\ UNCHANGED <<came, parts, timer, stage, epoch, calm, cut>> /\ AllText' = AllText
      /\ flights' = flights \ {f} /\ chat' = Shown(f)
  BY DEF Answered, input, AllText
<1>2. ASSUME Calm' PROVE Accounts'
  <2>1. Accounts /\ FlightAccount(f)
    BY <1>1, <1>2 DEF AccountInv, Calm, Accounts
  <2>2. flights' = {}
    BY <1>1, <2>1 DEF Accounts
  <2>3. f.epoch = epoch /\ f.content = live /\ live # <<>>
    BY <2>1 DEF FlightAccount
  <2>4. /\ live \in Seq(Nat) /\ chat \in Seq(Seq(Nat)) /\ F \in Seq(Nat) /\ AllText \in Seq(Nat)
        /\ rendered \in Seq(Nat) /\ <<>> \in Seq(Nat) /\ Len(chat) \in Nat
    BY Texts, LenProperties
  <2>5. ASSUME f.kind # "footer", F' \o parts = AllText, msg' = Len(chat'), msg' # 0,
               chat'[msg'] = live, live' = live, rendered' = live, F' \in Seq(Nat)
        PROVE  Accounts'
    <3>1. stage # "footer"
      BY <2>1, <2>5 DEF FlightAccount
    <3>2. live = live \o <<>> /\ F' \o <<>> = F'
      BY <2>4, <2>5, Concats
    <3>3. Owed'
      BY <1>1, <2>4, <2>5, <3>2 DEF Owed
    <3>4. stage \notin {"running", "failed"} => F' = AllText
      BY <2>5, <3>2 DEF AccountInv
    <3> QED
      BY <1>1, <2>2, <2>3, <2>5, <3>1, <3>3, <3>4 DEF Accounts
  <2>6. CASE f.kind = "send"
    <3>1. live' = live /\ rendered' = live /\ msg' = Len(chat) + 1 /\ chat' = Append(chat, live)
      BY <1>1, <2>3, <2>6 DEF Answered, Shown
    <3>2. Len(chat') = Len(chat) + 1 /\ chat'[Len(chat) + 1] = live
      BY <2>4, <3>1, AppendProperties
    <3>3. F' = F \o live
      BY <2>4, <3>1, FlatAppend
    <3>4. (F \o live) \o parts = AllText
      BY <2>1, <2>6 DEF Accounts, FlightAccount
    <3>5. F' \in Seq(Nat)
      BY <2>4, <3>3, Concats
    <3> QED
      BY <2>4, <2>5, <2>6, <3>1, <3>2, <3>3, <3>4, <3>5
  <2>7. CASE f.kind # "send"
    <3>1. /\ msg # 0 /\ f.to = msg /\ msg = Len(chat) /\ rendered # <<>> /\ chat[msg] = rendered
          /\ Owed
      BY <2>1, <2>7 DEF Accounts, FlightAccount
    <3>2. chat' = [chat EXCEPT ![msg] = live] /\ live' = live
      BY <1>1, <2>3, <2>7, <3>1 DEF Answered, Shown
    <3>3. CASE f.kind = "edit"
      <4>1. rendered' = live /\ msg' = msg
        BY <2>3, <3>3 DEF Answered
      <4>2. PICK gap \in Seq(Nat) : live = rendered \o gap /\ (F \o gap) \o parts = AllText
        BY <3>1 DEF Owed
      <4>3. F' = F \o gap
        BY <2>4, <3>1, <3>2, <4>2, FlatLonger
      <4>4. msg \in 1..Len(chat)
        BY <2>4, <3>1
      <4>5. Len(chat') = Len(chat) /\ chat'[msg] = live
        BY <2>4, <3>2, <4>4, ExceptSeq
      <4>6. F' \in Seq(Nat)
        BY <2>4, <4>3, Concats
      <4> QED
        BY <2>5, <3>1, <3>2, <3>3, <4>1, <4>2, <4>3, <4>5, <4>6
    <3>4. CASE f.kind # "edit"
      <4>1. f.kind = "footer" /\ live = rendered /\ stage = "footer"
        BY <2>1, <2>7, <3>4 DEF FlightAccount, Kinds
      <4>2. msg' = 0
        BY <2>3, <4>1 DEF Answered
      <4>3. chat' = chat
        <5>1. msg \in 1..Len(chat)
          BY <2>4, <3>1
        <5> QED
          BY <2>4, <3>1, <3>2, <4>1, <5>1, SameContents
      <4>4. F' = AllText
        BY <2>1, <4>1, <4>3 DEF Accounts
      <4> QED
        BY <1>1, <2>2, <4>1, <4>2, <4>4 DEF Accounts
    <3> QED
      BY <3>3, <3>4
  <2> QED
    BY <2>6, <2>7
<1> QED
  BY <1>1, <1>2 DEF AccountInv

\* Nothing is claimed once a request has failed.
LEMMA FailureAccount ==
    ASSUME AccountInv, NEW f \in flights, Failed(f) \/ EditTimedOut(f) PROVE AccountInv'
<1>1. UNCHANGED <<stage, parts, timer>> /\ calm' = FALSE /\ cut' \in BOOLEAN
  BY DEF Failed, EditTimedOut, buffer, AccountInv
<1> QED
  BY <1>1 DEF AccountInv, Calm

LEMMA AccountIsKept == Spec => []AccountInv
<1>1. StreamInv /\ AccountInv /\ [Next]_vars => AccountInv'
  <2> SUFFICES ASSUME StreamInv, AccountInv, [Next]_vars PROVE AccountInv'
    OBVIOUS
  <2>1. CASE UNCHANGED vars
    BY <2>1 DEF vars, AccountInv, Calm, Accounts, FlightAccount, Owed, AllText
  <2>2. CASE Next
    BY <2>2, TimerAccount, BeginAccount, TextAccount, FailsAccount, EndAccount, StoppedAccount, FooterAccount,
       CloseAccount, AnsweredAccount, FailureAccount DEF Next
  <2> QED
    BY <2>1, <2>2
<1> QED
  BY InitAccount, StreamIsTracked, <1>1, PTL DEF Spec

\* If Telegram answers each request before the next is made, the messages show
\* all the text of the prompts that have ended, once and in order
\* (_stream_edit_flush and finalize_stream).
THEOREM AllTextIsShown == Spec => []AllShownOnce
<1>1. AccountInv => AllShownOnce
  BY DEF AccountInv, Calm, Accounts, FlightAccount, AllShownOnce
<1> QED
  BY AccountIsKept, <1>1, PTL

=============================================================================
