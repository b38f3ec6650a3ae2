--------------------------- MODULE SessionProofs ---------------------------
(***************************************************************************)
(* Theorems about module Session, for every number of spans, every clock,  *)
(* every rounding of its stamps and whatever is said and captured.         *)
(***************************************************************************)
EXTENDS Session, EpisodeProofs

-----------------------------------------------------------------------------
(* The state.  Every event is the start or the end of one span.            *)

Chats(i) == spans[i].op = "chat"
Calls(i) == spans[i].op = "execute_tool"

StateTypes ==
    /\ now \in 0..(2 * MaxSpans)
    /\ clock \in Clocks
    /\ said \in Seq(Message)
    /\ spans \in Seq(Span)
    /\ captured \in Captures

\* The events of the spans.
Timed ==
    \A i \in DOMAIN spans :
        /\ spans[i].start <= now /\ spans[i].end <= now
        /\ spans[i].end # 0 => spans[i].start < spans[i].end
        /\ Calls(i) => spans[i].name \in Tools

Inv == StateTypes /\ Timed

LEMMA Bounds == MaxSpans \in Nat /\ MaxUser \in Nat /\ MaxStamp \in Nat /\ Limit \in Nat
  BY BoundsAssumption

LEMMA SpanFields ==
    ASSUME StateTypes, NEW i \in DOMAIN spans
    PROVE  /\ spans[i] \in Span
           /\ spans[i].op \in {"chat", "execute_tool"} /\ spans[i].name \in Tools \cup {<<>>}
           /\ spans[i].start \in Events /\ spans[i].end \in Events \cup {0}
           /\ spans[i].error \in BOOLEAN
  <1>1. spans \in Seq(Span) /\ DOMAIN spans = 1..Len(spans)
    BY LenProperties DEF StateTypes
  <1>2. spans[i] \in Span
    BY <1>1, ElementOfSeq
  <1>3. QED
    BY <1>2 DEF Span

LEMMA EventsAreNat == \A e \in Events \cup {0} : e \in Nat /\ (e \in Events => e # 0)
  BY Bounds DEF Events

LEMMA EventsOfSpan ==
    ASSUME Inv, NEW i \in DOMAIN spans
    PROVE  spans[i].start \in Nat /\ spans[i].end \in Nat /\ now \in Nat
  <1>1. spans[i].start \in Events /\ spans[i].end \in Events \cup {0}
    BY SpanFields DEF Inv
  <1>2. now \in Nat
    BY Bounds DEF Inv, StateTypes
  <1>3. QED
    BY <1>1, <1>2, EventsAreNat

LEMMA InvInit == Init => Inv
  BY Bounds DEF Init, Inv, StateTypes, Timed

LEMMA UserSaysKeepsInv == ASSUME Inv, UserSays PROVE Inv'
  <1>1. PICK t \in UserTexts : said' = Append(said, [role |-> "user", text |-> t])
    BY DEF UserSays
  <1>2. UNCHANGED <<now, clock, spans, captured>>
    BY DEF UserSays, setup
  <1>3. [role |-> "user", text |-> t] \in Message
    BY DEF Message, Texts
  <1>4. said' \in Seq(Message)
    BY <1>1, <1>3 DEF Inv, StateTypes
  <1>5. QED
    BY <1>2, <1>4 DEF Inv, StateTypes, Timed, Calls

LEMMA StartKeepsInv ==
    ASSUME Inv, NEW op \in {"chat", "execute_tool"}, NEW name \in Tools \cup {<<>>},
           NEW in \in Seq(Message), NEW args \in Texts \cup {{}}, Start(op, name, in, args),
           op = "execute_tool" => name \in Tools
    PROVE  Inv'
  <1> DEFINE s == [op |-> op, name |-> name, start |-> now + 1, end |-> 0,
                   in |-> in, out |-> <<>>, args |-> args, result |-> {}, error |-> FALSE]
  <1>1. /\ spans' = Append(spans, s) /\ now < 2 * MaxSpans /\ now' = now + 1
        /\ UNCHANGED <<said, clock, captured>>
    BY DEF Start, Event, setup
  <1>2. s \in Span
    <2>1. now + 1 \in Events
      BY <1>1, Bounds DEF Inv, StateTypes, Events
    <2>2. <<>> \in Seq(Message)
      OBVIOUS
    <2>3. QED
      BY <2>1, <2>2 DEF Span
  <1>3. s.start = now + 1 /\ s.end = 0 /\ s.op = op /\ s.name = name
    OBVIOUS
  <1> HIDE DEF s
  <1>4. /\ spans' \in Seq(Span) /\ Len(spans') = Len(spans) + 1 /\ Len(spans) \in Nat
        /\ \A i \in 1..Len(spans) : spans'[i] = spans[i]
        /\ spans'[Len(spans) + 1] = s
    BY <1>1, <1>2, AppendProperties, LenProperties DEF Inv, StateTypes
  <1>5. DOMAIN spans = 1..Len(spans) /\ DOMAIN spans' = 1..(Len(spans) + 1)
    BY <1>4, LenProperties DEF Inv, StateTypes
  <1>6. now' \in 0..(2 * MaxSpans)
    BY <1>1, Bounds DEF Inv, StateTypes
  <1>7. Timed'
    <2> SUFFICES ASSUME NEW i \in DOMAIN spans'
                 PROVE  /\ spans'[i].start <= now' /\ spans'[i].end <= now'
                        /\ spans'[i].end # 0 => spans'[i].start < spans'[i].end
                        /\ spans'[i].op = "execute_tool" => spans'[i].name \in Tools
      BY DEF Timed, Calls
    <2>1. CASE i = Len(spans) + 1
      BY <1>1, <1>3, <1>4, <1>6, <2>1
    <2>2. CASE i \in DOMAIN spans
      <3>1. spans'[i] = spans[i]
        BY <1>4, <1>5, <2>2
      <3>2. spans[i].start \in Nat /\ spans[i].end \in Nat /\ now \in Nat
        BY <2>2, EventsOfSpan
      <3>3. QED
        BY <1>1, <2>2, <3>1, <3>2 DEF Inv, Timed, Calls
    <2>3. QED
      BY <1>4, <1>5, <2>1, <2>2
  <1>8. QED
    BY <1>1, <1>4, <1>6, <1>7 DEF Inv, StateTypes

LEMMA StartChatKeepsInv == ASSUME Inv, StartChat PROVE Inv'
  <1>1. said \in Seq(Message) /\ {} \in Texts \cup {{}} /\ <<>> \in Tools \cup {<<>>}
    BY DEF Inv, StateTypes
  <1>2. Start("chat", <<>>, said, {})
    BY DEF StartChat
  <1>3. QED
    BY <1>1, <1>2, StartKeepsInv

LEMMA StartCallKeepsInv == ASSUME Inv, StartCall PROVE Inv'
  <1>1. PICK n \in Tools : \E t \in ArgTexts[n] : Start("execute_tool", n, <<>>, t)
    BY DEF StartCall
  <1> PICK t \in ArgTexts[n] : Start("execute_tool", n, <<>>, t)
    BY <1>1
  <1>2. t \in Texts \cup {{}} /\ <<>> \in Seq(Message) /\ n \in Tools \cup {<<>>}
    BY DEF Texts
  <1>3. QED
    BY <1>1, <1>2, StartKeepsInv

\* Span i ends: its event is the next one, and the rest of it that matters stays.
LEMMA EndKeepsInv ==
    ASSUME Inv, NEW i \in DOMAIN spans, spans[i].end = 0, Event, NEW s \in Span,
           s.op = spans[i].op, s.name = spans[i].name, s.start = spans[i].start, s.end = now + 1,
           spans' = [spans EXCEPT ![i] = s], said' \in Seq(Message), UNCHANGED setup
    PROVE  Inv'
  <1>1. now \in Nat /\ now < 2 * MaxSpans /\ now' = now + 1 /\ spans \in Seq(Span)
    BY Bounds DEF Inv, StateTypes, Event
  <1>2. spans' \in Seq(Span) /\ DOMAIN spans' = DOMAIN spans
    BY <1>1, ExceptSeq, LenProperties
  <1>3. now' \in 0..(2 * MaxSpans)
    BY <1>1, Bounds
  <1>4. StateTypes'
    BY <1>2, <1>3 DEF Inv, StateTypes, setup
  <1>5. Timed'
    <2> SUFFICES ASSUME NEW j \in DOMAIN spans
                 PROVE  /\ spans'[j].start <= now' /\ spans'[j].end <= now'
                        /\ spans'[j].end # 0 => spans'[j].start < spans'[j].end
                        /\ spans'[j].op = "execute_tool" => spans'[j].name \in Tools
      BY <1>2 DEF Timed, Calls
    <2>1. spans[j].start \in Nat /\ spans[j].end \in Nat
      BY EventsOfSpan
    <2>2. /\ spans[j].start <= now /\ spans[j].end <= now
          /\ spans[j].end # 0 => spans[j].start < spans[j].end
          /\ spans[j].op = "execute_tool" => spans[j].name \in Tools
      BY DEF Inv, Timed, Calls
    <2>3. CASE j = i
      <3>1. spans'[j] = s
        BY <2>3
      <3>2. s.start = spans[j].start /\ s.end = now + 1 /\ s.op = spans[j].op /\ s.name = spans[j].name
        BY <2>3
      <3>3. QED
        BY <1>1, <2>1, <2>2, <3>1, <3>2
    <2>4. CASE j # i
      <3>1. spans'[j] = spans[j]
        BY <2>4
      <3>2. QED
        BY <1>1, <2>1, <2>2, <3>1
    <2>5. QED
      BY <2>3, <2>4
  <1>6. QED
    BY <1>4, <1>5 DEF Inv

LEMMA EndChatKeepsInv == ASSUME Inv, NEW i \in DOMAIN spans, EndChat(i) PROVE Inv'
  <1>1. PICK t \in ChatTexts :
            /\ spans' = [spans EXCEPT ![i].end = now + 1,
                                     ![i].out = <<[role |-> "assistant", text |-> t]>>]
            /\ said' = Append(said, [role |-> "assistant", text |-> t])
    BY DEF EndChat
  <1> DEFINE m == [role |-> "assistant", text |-> t]
             s == [spans[i] EXCEPT !.end = now + 1, !.out = <<m>>]
  <1>2. m \in Message
    BY DEF Message, Texts
  <1>3. said' \in Seq(Message) /\ <<m>> \in Seq(Message)
    BY <1>1, <1>2 DEF Inv, StateTypes
  <1>4. now + 1 \in Events
    BY Bounds DEF Inv, StateTypes, EndChat, Event, Events
  <1>5. spans[i] \in Span
    BY SpanFields DEF Inv
  <1> HIDE DEF m
  <1>6. /\ s \in Span /\ s.op = spans[i].op /\ s.name = spans[i].name
        /\ s.start = spans[i].start /\ s.end = now + 1
    BY <1>3, <1>4, <1>5 DEF Span
  <1>7. spans' = [spans EXCEPT ![i] = s]
    BY <1>1 DEF m
  <1> HIDE DEF s
  <1>8. QED
    BY <1>3, <1>6, <1>7, EndKeepsInv DEF EndChat

LEMMA EndCallKeepsInv == ASSUME Inv, NEW i \in DOMAIN spans, EndCall(i) PROVE Inv'
  <1>1. PICK t \in ResultTexts[spans[i].name], e \in BOOLEAN :
            spans' = [spans EXCEPT ![i].end = now + 1, ![i].result = t, ![i].error = e]
    BY DEF EndCall
  <1> DEFINE s == [spans[i] EXCEPT !.end = now + 1, !.result = t, !.error = e]
  <1>2. spans[i].name \in Tools
    BY DEF Inv, Timed, Calls, EndCall
  <1>3. t \in Texts
    BY <1>2 DEF Texts
  <1>4. now + 1 \in Events
    BY Bounds DEF Inv, StateTypes, EndCall, Event, Events
  <1>5. spans[i] \in Span
    BY SpanFields DEF Inv
  <1>6. /\ s \in Span /\ s.op = spans[i].op /\ s.name = spans[i].name
        /\ s.start = spans[i].start /\ s.end = now + 1
    BY <1>3, <1>4, <1>5 DEF Span
  <1>7. spans' = [spans EXCEPT ![i] = s] /\ said' \in Seq(Message)
    BY <1>1 DEF EndCall, setup, Inv, StateTypes
  <1> HIDE DEF s
  <1>8. QED
    BY <1>6, <1>7, EndKeepsInv DEF EndCall

LEMMA Inductive == Spec => []Inv
  <1>1. ASSUME Inv, [Next]_vars PROVE Inv'
    <2>1. CASE UNCHANGED vars
      BY <1>1, <2>1 DEF Inv, StateTypes, Timed, Calls, vars
    <2>2. CASE UserSays
      BY <1>1, <2>2, UserSaysKeepsInv
    <2>3. CASE StartChat
      BY <1>1, <2>3, StartChatKeepsInv
    <2>4. CASE StartCall
      BY <1>1, <2>4, StartCallKeepsInv
    <2>5. CASE End
      BY <1>1, <2>5, EndChatKeepsInv, EndCallKeepsInv DEF End
    <2>6. QED
      BY <1>1, <2>1, <2>2, <2>3, <2>4, <2>5 DEF Next
  <1>2. QED
    BY InvInit, <1>1, PTL DEF Spec

-----------------------------------------------------------------------------
(* The clock and its rounding.                                             *)

LEMMA ClockOf ==
    ASSUME Inv, NEW m \in Events, NEW n \in Events
    PROVE  /\ clock[m] \in Stamps /\ clock[m] \in 1..MaxStamp
           /\ m <= n => clock[m] <= clock[n]
  <1>1. clock \in Clocks
    BY DEF Inv, StateTypes
  <1>2. clock \in [Events -> Stamps]
    BY <1>1, ClocksAssumption
  <1>3. clock[m] \in Stamps
    BY <1>2
  <1>4. m <= n => clock[m] <= clock[n]
    BY <1>1, ClocksAssumption
  <1>5. QED
    BY <1>3, <1>4 DEF Stamps

LEMMA Rounding ==
    ASSUME NEW s \in Stamps, NEW t \in Stamps
    PROVE  /\ Float[s] \in Nat /\ Float[s] > 0
           /\ s <= t => Float[s] <= Float[t]
  <1>1. s \in 0..MaxStamp /\ t \in 0..MaxStamp
    BY Bounds DEF Stamps
  <1>2. QED
    BY <1>1, FloatAssumption

-----------------------------------------------------------------------------
(* The tool calls of an Episode.                                           *)

CallsOf(I) == {i \in I : Calls(i)}

\* What the order clauses read of the call of span i.
LEMMA CallFields ==
    ASSUME NEW i
    PROVE  LET tc == toolCallFrom(Exported(i))
           IN  /\ tc.span = i /\ tc.name = spans[i].name /\ tc.error = spans[i].error
               /\ tc.started = StampOf(spans[i].start) /\ tc.ended = StampOf(spans[i].end)
  BY DEF toolCallFrom, Exported

LEMMA CallsOfEpisode ==
    ASSUME Inv, NEW I, I \subseteq DOMAIN spans
    PROVE  EpisodeOf(I).tool_calls = {toolCallFrom(Exported(i)) : i \in CallsOf(I)}
  <1>1. \A i \in I : Exported(i).op = spans[i].op
    BY DEF Exported
  <1>2. \A i \in I : spans[i].op \in {"chat", "execute_tool"}
    BY SpanFields DEF Inv
  <1>3. Called({Exported(i) : i \in I}) = {Exported(i) : i \in CallsOf(I)}
    BY <1>1, <1>2 DEF Called, OfOp, CallsOf, Calls
  <1>4. EpisodeOf(I).tool_calls = {toolCallFrom(s) : s \in Called({Exported(i) : i \in I})}
    BY DEF EpisodeOf, BuildEpisode
  <1>5. QED
    BY <1>3, <1>4

\* The stamps of a call that has ended are those of its two events.
LEMMA EndedStamps ==
    ASSUME Inv, NEW i \in Ended
    PROVE  /\ i \in DOMAIN spans /\ spans[i].start \in Events /\ spans[i].end \in Events
           /\ spans[i].start \in Nat /\ spans[i].end \in Nat /\ spans[i].start < spans[i].end
           /\ StampOf(spans[i].start) = clock[spans[i].start]
           /\ StampOf(spans[i].end) = clock[spans[i].end]
           /\ StampOf(spans[i].start) \in Stamps /\ StampOf(spans[i].end) \in Stamps
  <1>1. i \in DOMAIN spans /\ spans[i].end # 0
    BY DEF Ended
  <1>2. spans[i].start \in Events /\ spans[i].end \in Events
    BY <1>1, SpanFields DEF Inv
  <1>3. spans[i].start # 0
    BY <1>2, EventsAreNat
  <1>4. spans[i].start < spans[i].end
    BY <1>1 DEF Inv, Timed
  <1>5. /\ StampOf(spans[i].start) = clock[spans[i].start]
        /\ StampOf(spans[i].end) = clock[spans[i].end]
    BY <1>1, <1>3 DEF StampOf
  <1>6. QED
    BY <1>1, <1>2, <1>4, <1>5, ClockOf, EventsOfSpan

\* A call that was behind another is over when that one starts, as the policies see it.
LEMMA BehindIsOver ==
    ASSUME Inv, NEW i \in Ended, NEW j \in Ended, j \in Behind(i)
    PROVE  Over(toolCallFrom(Exported(j)), toolCallFrom(Exported(i)))
  <1>1. spans[j].end <= spans[i].start
    BY EndedStamps DEF Behind
  <1>2. clock[spans[j].end] <= clock[spans[i].start]
    BY <1>1, EndedStamps, ClockOf
  <1>3. StampOf(spans[j].end) <= StampOf(spans[i].start)
    BY <1>2, EndedStamps
  <1>4. /\ Float[StampOf(spans[j].end)] > 0
        /\ Float[StampOf(spans[j].end)] <= Float[StampOf(spans[i].start)]
    BY <1>3, EndedStamps, Rounding
  <1>5. QED
    BY <1>4, CallFields DEF Over

\* And nothing else is, if rounded stamps tell their events apart.
LEMMA OverIsBehind ==
    ASSUME Inv, NEW i \in Ended, NEW j \in Ended, i # j, Distinct(Float),
           Over(toolCallFrom(Exported(j)), toolCallFrom(Exported(i)))
    PROVE  j \in Behind(i)
  <1>1. Float[StampOf(spans[j].end)] <= Float[StampOf(spans[i].start)]
    BY CallFields DEF Over
  <1>2. Float[StampOf(spans[i].start)] # Float[StampOf(spans[j].end)]
    BY EndedStamps DEF Distinct
  <1>3. /\ Float[StampOf(spans[j].end)] \in Nat /\ Float[StampOf(spans[i].start)] \in Nat
    BY EndedStamps, Rounding
  <1>4. ~(StampOf(spans[i].start) <= StampOf(spans[j].end))
    BY <1>1, <1>2, <1>3, EndedStamps, Rounding
  <1>5. ~(clock[spans[i].start] <= clock[spans[j].end])
    BY <1>4, EndedStamps
  <1>6. ~(spans[i].start <= spans[j].end)
    BY <1>5, EndedStamps, ClockOf
  <1>7. spans[j].end < spans[i].start
    BY <1>6, EndedStamps
  <1>8. QED
    BY <1>7 DEF Behind

LEMMA CallsHaveEnded ==
    ASSUME Inv
    PROVE  /\ CallsOf(Ended) = CallsEnded /\ CallsEnded \subseteq Ended
           /\ Episode.tool_calls = {toolCallFrom(Exported(i)) : i \in CallsEnded}
  <1>1. Ended \subseteq DOMAIN spans
    BY DEF Ended
  <1>2. CallsOf(Ended) = CallsEnded
    BY DEF CallsOf, Calls, CallsEnded
  <1>3. QED
    BY <1>1, <1>2, CallsOfEpisode DEF Episode, CallsEnded

\* The session's variables are what they are declared to be, and axda's tool calls
\* are calls of known tools that end no earlier than they start.
THEOREM Types == Spec => []TypeOK
  <1>1. ASSUME Inv PROVE TypeOK
    <2> SUFFICES ASSUME NEW tc \in Episode.tool_calls
                 PROVE  tc.name \in Tools /\ tc.started <= tc.ended
      BY <1>1 DEF TypeOK, Inv, StateTypes
    <2>1. PICK i \in CallsEnded : tc = toolCallFrom(Exported(i))
      BY <1>1, CallsHaveEnded
    <2>2. i \in Ended /\ Calls(i)
      BY DEF CallsEnded, Calls
    <2>3. spans[i].name \in Tools
      BY <1>1, <2>2 DEF Inv, Timed, Ended
    <2>4. spans[i].start <= spans[i].end
      BY <1>1, <2>2, EndedStamps
    <2>5. StampOf(spans[i].start) <= StampOf(spans[i].end)
      BY <1>1, <2>2, <2>4, EndedStamps, ClockOf
    <2>6. QED
      BY <2>1, <2>3, <2>5, CallFields
  <1>2. QED
    BY <1>1, Inductive, PTL

\* The precondition of an action, as the policy looks for it among the tool calls.
LEMMA PreconditionFound ==
    ASSUME Inv, NEW i \in CallsEnded
    PROVE  has_precondition(Episode.tool_calls, Precondition, toolCallFrom(Exported(i)))
           <=> \E j \in CallsEnded : /\ matches(Precondition, spans[j].name) /\ ~spans[j].error
                                    /\ Over(toolCallFrom(Exported(j)), toolCallFrom(Exported(i)))
  <1>1. \A j \in CallsEnded : /\ toolCallFrom(Exported(j)).name = spans[j].name
                             /\ toolCallFrom(Exported(j)).error = spans[j].error
    BY CallFields
  <1>2. QED
    BY <1>1, CallsHaveEnded DEF has_precondition

LEMMA ReportedAsMissing ==
    ASSUME Inv
    PROVE  MissingPrecondition =
             {i \in CallsEnded :
                 /\ matches(Action, spans[i].name)
                 /\ ~has_precondition(Episode.tool_calls, Precondition, toolCallFrom(Exported(i)))}
  <1>1. \A i \in CallsEnded : /\ toolCallFrom(Exported(i)).name = spans[i].name
                             /\ toolCallFrom(Exported(i)).span = i
    BY CallFields
  <1>2. QED
    BY <1>1, CallsHaveEnded DEF MissingPrecondition, SpansOf, requires_precondition_violation

\* order.requires_precondition is right about every session: no action with a completed
\* precondition behind it is condemned, and none without one is let through while
\* rounded stamps tell events apart and no tool is on both sides.
THEOREM PreconditionsAreJudgedRightly == Spec => []PreconditionVerdict
  <1>1. ASSUME Inv PROVE MissingPrecondition \subseteq Unprepared
    <2> SUFFICES ASSUME NEW i \in CallsEnded, matches(Action, spans[i].name),
                        ~has_precondition(Episode.tool_calls, Precondition, toolCallFrom(Exported(i))),
                        NEW j \in Behind(i) \cap CallsEnded, matches(Precondition, spans[j].name)
                 PROVE  spans[j].error
      BY <1>1, ReportedAsMissing DEF Unprepared
    <2>1. Over(toolCallFrom(Exported(j)), toolCallFrom(Exported(i)))
      BY <1>1, BehindIsOver DEF CallsEnded
    <2>2. QED
      BY <1>1, <2>1, PreconditionFound
  <1>2. ASSUME Inv, Ordered PROVE Unprepared \subseteq MissingPrecondition
    <2> SUFFICES ASSUME NEW i \in CallsEnded, matches(Action, spans[i].name),
                        \A j \in Behind(i) \cap CallsEnded :
                            matches(Precondition, spans[j].name) => spans[j].error,
                        NEW j \in CallsEnded, matches(Precondition, spans[j].name), ~spans[j].error,
                        Over(toolCallFrom(Exported(j)), toolCallFrom(Exported(i)))
                 PROVE  FALSE
      BY <1>2, ReportedAsMissing, PreconditionFound DEF Unprepared
    <2>1. i \in Ended /\ j \in Ended /\ spans[i].name \in Tools
      BY <1>2 DEF CallsEnded, Calls, Ended, Inv, Timed
    <2>2. i # j
      BY <2>1, <1>2 DEF Ordered
    <2>3. j \in Behind(i)
      BY <1>2, <2>1, <2>2, OverIsBehind DEF Ordered
    <2>4. QED
      BY <2>3
  <1>3. ASSUME Inv PROVE PreconditionVerdict
    BY <1>1, <1>2, <1>3 DEF PreconditionVerdict
  <1>4. QED
    BY <1>3, Inductive, PTL

LEMMA ReportedAsEarly ==
    ASSUME Inv
    PROVE  SpansOf(before_violation(Episode.tool_calls, Action, Precondition)) =
             {j \in CallsEnded :
                 /\ matches(Precondition, spans[j].name)
                 /\ \E i \in CallsEnded :
                       /\ matches(Action, spans[i].name)
                       /\ Over(toolCallFrom(Exported(j)), toolCallFrom(Exported(i)))}
  <1>1. \A i \in CallsEnded : /\ toolCallFrom(Exported(i)).name = spans[i].name
                             /\ toolCallFrom(Exported(i)).span = i
    BY CallFields
  <1>2. QED
    BY <1>1, CallsHaveEnded DEF SpansOf, before_violation

\* order.before is right about every session: it reports each call that was over when
\* one that must come before it began, and overlapping calls never, while rounded
\* stamps tell events apart and no tool is on both sides.
THEOREM OrderIsJudgedRightly == Spec => []BeforeVerdict
  <1> DEFINE reported == SpansOf(before_violation(Episode.tool_calls, Action, Precondition))
  <1>1. ASSUME Inv PROVE Early \subseteq reported
    <2> SUFFICES ASSUME NEW j \in CallsEnded, matches(Precondition, spans[j].name),
                        NEW i \in CallsEnded, matches(Action, spans[i].name), j \in Behind(i)
                 PROVE  Over(toolCallFrom(Exported(j)), toolCallFrom(Exported(i)))
      BY <1>1, ReportedAsEarly DEF Early
    <2>1. QED
      BY <1>1, BehindIsOver DEF CallsEnded
  <1>2. ASSUME Inv, Ordered PROVE reported \subseteq Early
    <2> SUFFICES ASSUME NEW j \in CallsEnded, matches(Precondition, spans[j].name),
                        NEW i \in CallsEnded, matches(Action, spans[i].name),
                        Over(toolCallFrom(Exported(j)), toolCallFrom(Exported(i)))
                 PROVE  j \in Behind(i)
      BY <1>2, ReportedAsEarly DEF Early
    <2>1. i \in Ended /\ j \in Ended /\ spans[i].name \in Tools
      BY <1>2 DEF CallsEnded, Calls, Ended, Inv, Timed
    <2>2. i # j
      BY <2>1, <1>2 DEF Ordered
    <2>3. QED
      BY <1>2, <2>1, <2>2, OverIsBehind DEF Ordered
  <1> HIDE DEF reported
  <1>3. ASSUME Inv PROVE BeforeVerdict
    <2>1. Early \subseteq reported /\ (Ordered => reported = Early)
      BY <1>1, <1>2, <1>3
    <2>2. QED
      BY <2>1 DEF BeforeVerdict, reported
  <1>4. QED
    BY <1>3, Inductive, PTL

-----------------------------------------------------------------------------
(* The conversation.                                                       *)

\* A chat's answer, the order of the spans, and what a chat was told: all that had
\* been said, by the user or by chats that were over.
Answered ==
    \A i \in DOMAIN spans : Chats(i) =>
        /\ spans[i].args = {} /\ spans[i].result = {}
        /\ spans[i].end # 0 => spans[i].out = <<[role |-> "assistant", text |-> Said(i)]>>

InTurn == \A i, j \in DOMAIN spans : i < j => spans[i].start < spans[j].start

\* Every message is what the user said or an ended chat's answer.
Authored(messages, chats) ==
    \A m \in ToSet(messages) : m.role = "assistant" => \E j \in chats : Said(j) = m.text

Told ==
    \A i \in DOMAIN spans : Chats(i) =>
        /\ ToSet(spans[i].in) \subseteq ToSet(said)
        /\ \A j \in DOMAIN spans : i < j /\ Chats(j) => ToSet(spans[i].in) \subseteq ToSet(spans[j].in)
        /\ Authored(spans[i].in, ChatsEnded \cap Behind(i))

Talk == Answered /\ InTurn /\ Told /\ Authored(said, ChatsEnded)

LEMMA ToSetOfAppend ==
    ASSUME NEW S, NEW s \in Seq(S), NEW e \in S
    PROVE  ToSet(Append(s, e)) = ToSet(s) \cup {e}
  <1>1. /\ Len(s) \in Nat /\ DOMAIN s = 1..Len(s) /\ Append(s, e) \in Seq(S)
        /\ Len(Append(s, e)) = Len(s) + 1
        /\ \A i \in 1..Len(s) : Append(s, e)[i] = s[i]
        /\ Append(s, e)[Len(s) + 1] = e
    BY AppendProperties, LenProperties
  <1>2. DOMAIN Append(s, e) = 1..(Len(s) + 1)
    BY <1>1, LenProperties
  <1>3. 1..(Len(s) + 1) = 1..Len(s) \cup {Len(s) + 1}
    BY <1>1
  <1>4. QED
    BY <1>1, <1>2, <1>3 DEF ToSet

LEMMA TalkInit == Init => Talk
  <1> SUFFICES ASSUME Init PROVE Talk
    OBVIOUS
  <1>1. spans = <<>> /\ said = <<>> /\ DOMAIN <<>> = {} /\ ToSet(<<>>) = {}
    BY DEF Init, ToSet
  <1>2. QED
    BY <1>1 DEF Talk, Answered, InTurn, Told, Authored

LEMMA UserSaysKeepsTalk == ASSUME Inv, Talk, UserSays PROVE Talk'
  <1>1. PICK t \in UserTexts : said' = Append(said, [role |-> "user", text |-> t])
    BY DEF UserSays
  <1> DEFINE m == [role |-> "user", text |-> t]
  <1>2. m \in Message /\ said \in Seq(Message) /\ m.role # "assistant"
    BY DEF Message, Texts, Inv, StateTypes
  <1>3. ToSet(said') = ToSet(said) \cup {m}
    BY <1>1, <1>2, ToSetOfAppend
  <1>4. UNCHANGED spans
    BY DEF UserSays
  <1>5. ChatsEnded' = ChatsEnded /\ \A i : Behind(i)' = Behind(i) /\ Said(i)' = Said(i)
    BY <1>4 DEF ChatsEnded, Ended, Behind, Said
  <1> HIDE DEF m
  <1>6. Authored(said, ChatsEnded)'
    BY <1>2, <1>3, <1>5 DEF Talk, Authored
  <1>7. Answered' /\ InTurn'
    BY <1>4 DEF Talk, Answered, InTurn, Chats, Said
  <1>8. Told'
    BY <1>3, <1>4, <1>5 DEF Talk, Told, Chats, Authored
  <1>9. QED
    BY <1>6, <1>7, <1>8 DEF Talk

LEMMA StartKeepsTalk ==
    ASSUME Inv, Talk, NEW op, NEW name, NEW in, NEW args, Start(op, name, in, args),
           op = "chat" => in = said /\ args = {}
    PROVE  Talk'
  <1> DEFINE s == [op |-> op, name |-> name, start |-> now + 1, end |-> 0,
                   in |-> in, out |-> <<>>, args |-> args, result |-> {}, error |-> FALSE]
  <1> PICK n : n = Len(spans) + 1
    OBVIOUS
  <1>1. spans' = Append(spans, s) /\ UNCHANGED said /\ now \in Nat
    BY Bounds DEF Start, setup, Inv, StateTypes
  <1>2. /\ Len(spans) \in Nat /\ DOMAIN spans = 1..Len(spans) /\ DOMAIN spans' = 1..n
        /\ \A i \in DOMAIN spans : spans'[i] = spans[i]
        /\ spans'[n] = s
    <2>1. spans \in Seq(Span)
      BY DEF Inv, StateTypes
    <2>2. Len(spans) \in Nat /\ DOMAIN spans = 1..Len(spans)
      BY <2>1, LenProperties
    <2>3. spans \in [1..Len(spans) -> Span]
      BY <2>1, LenProperties
    <2>4. Append(spans, s) = [i \in 1..n |-> IF i = n THEN s ELSE spans[i]]
      BY <2>2, <2>3
    <2>5. \A i \in 1..Len(spans) : i \in 1..n /\ i # n
      BY <2>2
    <2>6. n \in 1..n
      BY <2>2
    <2> HIDE DEF s
    <2>7. QED
      BY <1>1, <2>2, <2>4, <2>5, <2>6
  <1>3. s.op = op /\ s.start = now + 1 /\ s.end = 0 /\ s.in = in /\ s.args = args /\ s.result = {}
    OBVIOUS
  <1> HIDE DEF s
  <1>4. \A i \in DOMAIN spans' : i \in DOMAIN spans \/ i = n
    BY <1>2
  <1>5. n \notin DOMAIN spans /\ n \in DOMAIN spans' /\ DOMAIN spans \subseteq DOMAIN spans'
    BY <1>2
  <1>6. Ended' = Ended /\ ChatsEnded' = ChatsEnded
    BY <1>2, <1>3, <1>4, <1>5 DEF Ended, ChatsEnded
  <1>7. Ended \subseteq DOMAIN spans /\ ChatsEnded \subseteq Ended
    BY DEF Ended, ChatsEnded
  <1>8. \A j \in Ended : Said(j)' = Said(j)
    BY <1>2, <1>7 DEF Said
  <1>9. \A i \in DOMAIN spans : Behind(i)' = Behind(i)
    BY <1>2, <1>6, <1>7 DEF Behind
  <1>10. Behind(n)' = Ended
    <2>1. \A j \in Ended : spans'[j].end < spans'[n].start
      <3> TAKE j \in Ended
      <3>1. spans[j].end <= now /\ spans[j].end \in Nat
        BY <1>7, EventsOfSpan DEF Inv, Timed
      <3>2. spans'[j].end = spans[j].end /\ spans'[n].start = now + 1
        BY <1>2, <1>3, <1>7
      <3>3. QED
        BY <1>1, <3>1, <3>2
    <2>2. QED
      BY <1>6, <2>1 DEF Behind
  <1>11. Authored(said, ChatsEnded)'
    BY <1>1, <1>6, <1>7, <1>8 DEF Talk, Authored
  <1>12. Answered'
    BY <1>2, <1>3, <1>4 DEF Talk, Answered, Chats, Said
  <1>13. InTurn'
    <2> SUFFICES ASSUME NEW i \in DOMAIN spans', NEW j \in DOMAIN spans', i < j
                 PROVE  spans'[i].start < spans'[j].start
      BY DEF InTurn
    <2>1. i \in DOMAIN spans
      BY <1>2, <1>4
    <2>2. CASE j \in DOMAIN spans
      BY <1>2, <2>1, <2>2 DEF Talk, InTurn
    <2>3. CASE j = n
      <3>1. spans[i].start <= now /\ spans[i].start \in Nat
        BY <2>1, EventsOfSpan DEF Inv, Timed
      <3>2. spans'[i].start = spans[i].start /\ spans'[j].start = now + 1
        BY <1>2, <1>3, <2>1, <2>3
      <3>3. QED
        BY <1>1, <3>1, <3>2
    <2>4. QED
      BY <1>4, <2>2, <2>3
  <1>14. Told'
    <2>1. ASSUME NEW i \in DOMAIN spans, Chats(i)'
          PROVE  /\ Chats(i) /\ spans'[i].in = spans[i].in
                 /\ ToSet(spans'[i].in) \subseteq ToSet(said')
                 /\ Authored(spans[i].in, ChatsEnded \cap Behind(i))'
      <3>1. Chats(i) /\ spans'[i].in = spans[i].in
        BY <1>2, <2>1 DEF Chats
      <3>2. /\ ToSet(spans[i].in) \subseteq ToSet(said)
            /\ Authored(spans[i].in, ChatsEnded \cap Behind(i))
        BY <3>1 DEF Talk, Told
      <3>3. QED
        BY <1>1, <1>6, <1>7, <1>8, <1>9, <3>1, <3>2 DEF Authored
    <2>2. ASSUME Chats(n)'
          PROVE  /\ spans'[n].in = said
                 /\ Authored(spans[n].in, ChatsEnded \cap Behind(n))'
      <3>1. spans'[n].in = said
        BY <1>2, <1>3, <2>2 DEF Chats
      <3>2. QED
        BY <1>6, <1>7, <1>8, <1>10, <3>1 DEF Talk, Authored
    <2>3. ASSUME NEW i \in DOMAIN spans', Chats(i)', NEW j \in DOMAIN spans', i < j, Chats(j)'
          PROVE  ToSet(spans'[i].in) \subseteq ToSet(spans'[j].in)
      <3>1. i \in DOMAIN spans
        BY <1>2, <1>4, <2>3
      <3>2. CASE j \in DOMAIN spans
        BY <2>1, <2>3, <3>1, <3>2 DEF Talk, Told
      <3>3. CASE j = n
        BY <1>1, <2>1, <2>2, <2>3, <3>1, <3>3
      <3>4. QED
        BY <1>4, <3>2, <3>3
    <2>4. ASSUME NEW i \in DOMAIN spans', Chats(i)'
          PROVE  /\ ToSet(spans'[i].in) \subseteq ToSet(said')
                 /\ Authored(spans[i].in, ChatsEnded \cap Behind(i))'
      BY <1>1, <1>4, <2>1, <2>2, <2>4
    <2>5. QED
      BY <2>3, <2>4 DEF Told
  <1>15. QED
    BY <1>11, <1>12, <1>13, <1>14 DEF Talk

\* Span i ends, and what it answers is said.
LEMMA EndKeepsTalk ==
    ASSUME Inv, Talk, NEW i \in DOMAIN spans, spans[i].end = 0, NEW s, spans' = [spans EXCEPT ![i] = s],
           s.op = spans[i].op, s.start = spans[i].start, s.end = now + 1, s.in = spans[i].in,
           Chats(i) => /\ s.args = {} /\ s.result = {}
                       /\ \E t : s.out = <<[role |-> "assistant", text |-> t]>>,
           ToSet(said) \subseteq ToSet(said'),
           \A m \in ToSet(said') : m \in ToSet(said) \/ (Chats(i) /\ m = s.out[1])
    PROVE  Talk'
  <1>1. /\ DOMAIN spans' = DOMAIN spans /\ spans'[i] = s
        /\ \A j \in DOMAIN spans : j # i => spans'[j] = spans[j]
    OBVIOUS
  <1>2. now \in Nat /\ now + 1 # 0
    BY Bounds DEF Inv, StateTypes
  <1>3. Ended' = Ended \cup {i} /\ i \notin Ended
    BY <1>1, <1>2 DEF Ended
  <1>4. \A j \in DOMAIN spans : /\ Chats(j)' <=> Chats(j)
                               /\ spans'[j].start = spans[j].start /\ spans'[j].in = spans[j].in
    BY <1>1 DEF Chats
  <1>5. ChatsEnded \subseteq ChatsEnded' /\ (Chats(i) => i \in ChatsEnded') /\ i \notin ChatsEnded
    BY <1>1, <1>3 DEF ChatsEnded, Ended, Chats
  <1>6. \A j \in Ended : j \in DOMAIN spans /\ j # i /\ Said(j)' = Said(j)
    BY <1>1, <1>3 DEF Said, Ended
  <1>7. ASSUME NEW j \in DOMAIN spans PROVE Behind(j)' = Behind(j)
    <2>1. spans[j].start \in Nat /\ spans[j].start <= now
      BY EventsOfSpan DEF Inv, Timed
    <2>2. ~(spans'[i].end < spans'[j].start)
      BY <1>1, <1>2, <1>4, <2>1
    <2>3. QED
      BY <1>1, <1>3, <1>4, <1>6, <2>2 DEF Behind
  <1>8. Answered'
    <2>1. \A j \in DOMAIN spans : j # i => (Said(j)' = Said(j))
      BY <1>1 DEF Said
    <2>2. Chats(i) => spans'[i].out = <<[role |-> "assistant", text |-> Said(i)']>>
      <3> SUFFICES ASSUME Chats(i) PROVE spans'[i].out = <<[role |-> "assistant", text |-> Said(i)']>>
        OBVIOUS
      <3>1. PICK t : s.out = <<[role |-> "assistant", text |-> t]>>
        OBVIOUS
      <3>2. Said(i)' = t
        BY <1>1, <3>1 DEF Said
      <3>3. QED
        BY <1>1, <3>1, <3>2
    <2>3. QED
      BY <1>1, <1>4, <2>1, <2>2 DEF Talk, Answered
  <1>9. InTurn'
    BY <1>1, <1>4 DEF Talk, InTurn
  <1>10. Authored(said, ChatsEnded)'
    <2> SUFFICES ASSUME NEW m \in ToSet(said'), m.role = "assistant"
                 PROVE  \E j \in ChatsEnded' : Said(j)' = m.text
      BY DEF Authored
    <2>1. CASE m \in ToSet(said)
      <3>1. PICK j \in ChatsEnded : Said(j) = m.text
        BY <2>1 DEF Talk, Authored
      <3>2. j \in Ended
        BY DEF ChatsEnded
      <3>3. QED
        BY <1>5, <1>6, <3>1, <3>2
    <2>2. CASE Chats(i) /\ m = s.out[1]
      BY <1>1, <1>5, <2>2 DEF Said
    <2>3. QED
      BY <2>1, <2>2
  <1>11. Told'
    <2>1. ASSUME NEW j \in DOMAIN spans, Chats(j)'
          PROVE  /\ ToSet(spans'[j].in) \subseteq ToSet(said')
                 /\ Authored(spans[j].in, ChatsEnded \cap Behind(j))'
      <3>1. /\ ToSet(spans[j].in) \subseteq ToSet(said)
            /\ Authored(spans[j].in, ChatsEnded \cap Behind(j))
        BY <1>4, <2>1 DEF Talk, Told
      <3>2. Behind(j)' = Behind(j) /\ Behind(j) \subseteq Ended /\ spans'[j].in = spans[j].in
        BY <1>4, <1>7 DEF Behind
      <3>3. \A k \in ChatsEnded \cap Behind(j) : k \in (ChatsEnded \cap Behind(j))' /\ Said(k)' = Said(k)
        BY <1>5, <1>6, <3>2
      <3>4. Authored(spans[j].in, ChatsEnded \cap Behind(j))'
        BY <3>1, <3>2, <3>3 DEF Authored
      <3>5. QED
        BY <3>1, <3>2, <3>4
    <2>2. ASSUME NEW j \in DOMAIN spans, Chats(j)', NEW k \in DOMAIN spans, j < k, Chats(k)'
          PROVE  ToSet(spans'[j].in) \subseteq ToSet(spans'[k].in)
      BY <1>4, <2>2 DEF Talk, Told
    <2>3. QED
      BY <1>1, <2>1, <2>2 DEF Told
  <1>12. QED
    BY <1>8, <1>9, <1>10, <1>11 DEF Talk

LEMMA EndChatKeepsTalk == ASSUME Inv, Talk, NEW i \in DOMAIN spans, EndChat(i) PROVE Talk'
  <1>1. PICK t \in ChatTexts :
            /\ spans' = [spans EXCEPT ![i].end = now + 1,
                                     ![i].out = <<[role |-> "assistant", text |-> t]>>]
            /\ said' = Append(said, [role |-> "assistant", text |-> t])
    BY DEF EndChat
  <1> DEFINE m == [role |-> "assistant", text |-> t]
             s == [spans[i] EXCEPT !.end = now + 1, !.out = <<m>>]
  <1>2. m \in Message /\ said \in Seq(Message)
    BY DEF Message, Texts, Inv, StateTypes
  <1>3. ToSet(said') = ToSet(said) \cup {m}
    BY <1>1, <1>2, ToSetOfAppend
  <1>4. spans[i] \in Span
    BY SpanFields DEF Inv
  <1>5. spans[i].end = 0 /\ Chats(i) /\ spans[i].args = {} /\ spans[i].result = {}
    BY DEF EndChat, Chats, Talk, Answered
  <1>6. spans' = [spans EXCEPT ![i] = s]
    BY <1>1
  <1>7. /\ s.op = spans[i].op /\ s.start = spans[i].start /\ s.end = now + 1
        /\ s.in = spans[i].in /\ s.args = {} /\ s.result = {} /\ s.out = <<m>>
    BY <1>4, <1>5 DEF Span
  <1>8. \E u : s.out = <<[role |-> "assistant", text |-> u]>>
    BY <1>7
  <1>9. s.out[1] = m
    BY <1>7
  <1> HIDE DEF s, m
  <1>10. QED
    BY <1>3, <1>5, <1>6, <1>7, <1>8, <1>9, EndKeepsTalk

LEMMA EndCallKeepsTalk == ASSUME Inv, Talk, NEW i \in DOMAIN spans, EndCall(i) PROVE Talk'
  <1>1. PICK t \in ResultTexts[spans[i].name], e \in BOOLEAN :
            spans' = [spans EXCEPT ![i].end = now + 1, ![i].result = t, ![i].error = e]
    BY DEF EndCall
  <1> DEFINE s == [spans[i] EXCEPT !.end = now + 1, !.result = t, !.error = e]
  <1>2. spans[i] \in Span
    BY SpanFields DEF Inv
  <1>3. spans[i].end = 0 /\ ~Chats(i) /\ said' = said
    BY DEF EndCall, Chats
  <1>4. spans' = [spans EXCEPT ![i] = s]
    BY <1>1
  <1>5. /\ s.op = spans[i].op /\ s.start = spans[i].start /\ s.end = now + 1
        /\ s.in = spans[i].in
    BY <1>2 DEF Span
  <1> HIDE DEF s
  <1>6. QED
    BY <1>3, <1>4, <1>5, EndKeepsTalk

LEMMA TalkInductive == Spec => [](Inv /\ Talk)
  <1>1. ASSUME Inv, Talk, [Next]_vars PROVE Talk'
    <2>1. CASE UNCHANGED vars
      <3>1. UNCHANGED <<spans, said>>
        BY <2>1 DEF vars
      <3>2. Answered' /\ InTurn'
        BY <1>1, <3>1 DEF Talk, Answered, InTurn, Chats, Said
      <3>3. ChatsEnded' = ChatsEnded /\ \A i : Behind(i)' = Behind(i) /\ Said(i)' = Said(i)
        BY <3>1 DEF ChatsEnded, Ended, Behind, Said
      <3>4. Authored(said, ChatsEnded)'
        BY <1>1, <3>1, <3>3 DEF Talk, Authored
      <3>5. Told'
        BY <1>1, <3>1, <3>3 DEF Talk, Told, Authored, Chats
      <3>6. QED
        BY <3>2, <3>4, <3>5 DEF Talk
    <2>2. CASE UserSays
      BY <1>1, <2>2, UserSaysKeepsTalk
    <2>3. CASE StartChat
      BY <1>1, <2>3, StartKeepsTalk DEF StartChat
    <2>4. CASE StartCall
      <3>1. PICK n \in Tools : \E t \in ArgTexts[n] : Start("execute_tool", n, <<>>, t)
        BY <2>4 DEF StartCall
      <3>2. PICK t : Start("execute_tool", n, <<>>, t)
        BY <3>1
      <3>3. QED
        BY <1>1, <3>2, StartKeepsTalk
    <2>5. CASE End
      BY <1>1, <2>5, EndChatKeepsTalk, EndCallKeepsTalk DEF End
    <2>6. QED
      BY <1>1, <2>1, <2>2, <2>3, <2>4, <2>5 DEF Next
  <1>2. QED
    BY TalkInit, <1>1, Inductive, PTL DEF Spec

-----------------------------------------------------------------------------
(* The turns of an Episode, when what the model says is captured: what     *)
(* each chat was told, if that is captured too, and then what it answered. *)

ChatsOf(I) == {i \in I : Chats(i)}
Heard(i)   == IF "inputs" \in captured THEN spans[i].in ELSE <<>>
Answer(i)  == Len(Heard(i)) + 1   \* its place among the messages of chat i

TurnSet == [role : {"user", "assistant"}, text : Texts, started : 0..MaxStamp,
            span : Nat, captured : BOOLEAN]

LEMMA ChatMessages ==
    ASSUME Inv, Talk, "outputs" \in captured, NEW i \in ChatsEnded
    PROVE  /\ Heard(i) \in Seq(Message) /\ Len(Heard(i)) \in Nat
           /\ ToSet(Heard(i)) \subseteq ToSet(spans[i].in) /\ Said(i) \in Texts
           /\ ChatTurns(Exported(i)) \in Seq(TurnSet)
           /\ Len(ChatTurns(Exported(i))) = Answer(i)
           /\ \A m \in 1..Len(Heard(i)) :
                 ChatTurns(Exported(i))[m] = Turn(Heard(i)[m].role, Heard(i)[m].text, Exported(i), TRUE)
           /\ ChatTurns(Exported(i))[Answer(i)] = Turn("assistant", Said(i), Exported(i), TRUE)
  <1> DEFINE h == Heard(i)
             e == Exported(i)
             a == [role |-> "assistant", text |-> Said(i)]
             messages == h \o <<a>>
             n == Len(h)
  <1>1. i \in Ended /\ i \in DOMAIN spans /\ Chats(i) /\ spans[i].end # 0
    BY DEF ChatsEnded, Ended, Chats
  <1>2. spans[i] \in Span
    BY <1>1, SpanFields DEF Inv
  <1>3. spans[i].in \in Seq(Message) /\ spans[i].out \in Seq(Message) /\ <<>> \in Seq(Message)
    BY <1>2 DEF Span
  <1>4. h \in Seq(Message) /\ n \in Nat
    BY <1>3, LenProperties DEF Heard
  <1>5. ToSet(h) \subseteq ToSet(spans[i].in)
    BY DEF Heard, ToSet
  <1>6. spans[i].out = <<a>>
    BY <1>1 DEF Talk, Answered
  <1>7. a \in Message /\ <<a>> \in Seq(Message) /\ Len(<<a>>) = 1 /\ <<a>>[1] = a
    <2>1. <<a>> \in Seq(Message)
      BY <1>3, <1>6
    <2>2. Len(<<a>>) = 1 /\ <<a>>[1] = a
      OBVIOUS
    <2>3. QED
      BY <2>1, <2>2, ElementOfSeq
  <1>8. /\ e.in = h /\ e.out = <<a>> /\ e.start = StampOf(spans[i].start) /\ e.id = i
        /\ Input(e) = e.in /\ Output(e) = e.out
    <2>1. e.prompt = {} /\ e.completion = {}
      BY DEF Exported
    <2>2. e.in = h /\ e.out = <<a>> /\ e.start = StampOf(spans[i].start) /\ e.id = i
      BY <1>6 DEF Exported, Heard
    <2> HIDE DEF h, e, a, n, messages
    <2>3. QED
      BY <2>1, <2>2 DEF Input, Output
  <1>9. a.role = "assistant" /\ a.text = Said(i)
    OBVIOUS
  <1> HIDE DEF h, e, a, n
  <1>10. /\ messages \in Seq(Message) /\ Len(messages) = n + 1
         /\ \A m \in 1..(n + 1) : messages[m] = IF m <= n THEN h[m] ELSE <<a>>[m - n]
    BY <1>4, <1>7, ConcatProperties DEF n
  <1>11. /\ \A m \in 1..n : messages[m] = h[m]
         /\ messages[n + 1] = a
    <2>1. ASSUME NEW m \in 1..n PROVE messages[m] = h[m]
      <3>1. m \in 1..(n + 1) /\ m <= n
        BY <1>4
      <3>2. QED
        BY <1>10, <3>1
    <2>2. messages[n + 1] = a
      <3>1. n + 1 \in 1..(n + 1) /\ ~(n + 1 <= n) /\ (n + 1) - n = 1
        BY <1>4
      <3>2. QED
        BY <1>7, <1>10, <3>1
    <2>3. QED
      BY <2>1, <2>2
  <1>12. DOMAIN messages = 1..(n + 1)
    BY <1>10, LenProperties
  <1> HIDE DEF messages
  <1>13. messages # <<>>
    BY <1>4, <1>10, EmptySeq
  <1> DEFINE t == [k \in 1..(n + 1) |-> Turn(messages[k].role, messages[k].text, e, TRUE)]
  <1>14. ChatTurns(e) = t
    BY <1>8, <1>12, <1>13 DEF ChatTurns, messages
  <1>15. e.start \in 0..MaxStamp /\ e.id \in Nat
    <2>1. e.start \in Stamps
      BY <1>1, <1>8, EndedStamps
    <2>2. i \in Nat
      BY <1>1, LenProperties DEF Inv, StateTypes
    <2>3. QED
      BY <1>8, <2>1, <2>2, Bounds DEF Stamps
  <1>16. \A k \in 1..(n + 1) : t[k] \in TurnSet
    <2> TAKE k \in 1..(n + 1)
    <2>1. messages[k] \in Message
      BY <1>10, ElementOfSeq
    <2>2. messages[k].role \in {"user", "assistant"} /\ messages[k].text \in Texts
      BY <2>1 DEF Message
    <2>3. QED
      BY <1>15, <2>2 DEF TurnSet, Turn
  <1>17. t \in [1..(n + 1) -> TurnSet]
    BY <1>16
  <1>18. /\ \A m \in 1..n : t[m] = Turn(h[m].role, h[m].text, e, TRUE)
         /\ t[n + 1] = Turn("assistant", Said(i), e, TRUE)
    <2>1. n + 1 \in 1..(n + 1) /\ \A m \in 1..n : m \in 1..(n + 1)
      BY <1>4
    <2>2. QED
      BY <1>9, <1>11, <2>1
  <1> HIDE DEF t
  <1>19. t \in Seq(TurnSet) /\ Len(t) = n + 1
    BY <1>4, <1>17, IsASeq, LenProperties
  <1>20. Said(i) \in Texts
    BY <1>7, <1>9 DEF Message
  <1>21. QED
    BY <1>4, <1>5, <1>14, <1>18, <1>19, <1>20 DEF Answer, h, e, n

LEMMA EndedFinite ==
    ASSUME Inv
    PROVE  /\ IsFiniteSet(Ended) /\ Ended \subseteq DOMAIN spans /\ DOMAIN spans \subseteq Nat
           /\ ChatsEnded \subseteq Ended /\ CallsEnded \subseteq Ended
  <1>1. DOMAIN spans = 1..Len(spans) /\ Len(spans) \in Nat
    BY LenProperties DEF Inv, StateTypes
  <1>2. IsFiniteSet(DOMAIN spans)
    BY <1>1, FS_Interval
  <1>3. Ended \in SUBSET DOMAIN spans
    BY DEF Ended
  <1>4. QED
    BY <1>1, <1>2, <1>3, FS_Subset DEF ChatsEnded, CallsEnded

\* The chats of an Episode are in the order in which they started.
LEMMA ChatsInOrder ==
    ASSUME Inv, Talk, NEW I, I \subseteq Ended
    PROVE  LET S == OfOp({Exported(i) : i \in I}, "chat")
           IN  /\ S = {Exported(i) : i \in ChatsOf(I)}
               /\ Sortable(S)
               /\ \A i, j \in ChatsOf(I) : i < j <=> Precedes(Exported(i), Exported(j))
  <1> DEFINE S == OfOp({Exported(i) : i \in I}, "chat")
  <1>1. \A i : /\ Exported(i).op = spans[i].op /\ Exported(i).rank = i
             /\ Exported(i).start = StampOf(spans[i].start)
    BY DEF Exported
  <1>2. S = {Exported(i) : i \in ChatsOf(I)}
    BY <1>1 DEF OfOp, ChatsOf, Chats
  <1>3. ChatsOf(I) \subseteq Ended /\ ChatsOf(I) \subseteq Nat /\ ChatsOf(I) \subseteq DOMAIN spans
    BY EndedFinite DEF ChatsOf
  <1>4. \A i \in ChatsOf(I) : Exported(i).start \in Nat /\ Exported(i).rank \in Nat
    BY <1>1, <1>3, EndedStamps, Bounds DEF Stamps
  <1>5. \A i, j \in ChatsOf(I) : Exported(i) # Exported(j) => Exported(i).rank # Exported(j).rank
    BY <1>1
  <1>6. IsFiniteSet(S)
    <2>1. IsFiniteSet(ChatsOf(I))
      BY <1>3, EndedFinite, FS_Subset
    <2> DEFINE f == [i \in ChatsOf(I) |-> Exported(i)]
    <2>2. f \in Surjection(ChatsOf(I), S)
      BY <1>2 DEF Surjection
    <2>3. QED
      BY <2>1, <2>2, FS_Surjection
  <1>7. Sortable(S)
    BY <1>2, <1>4, <1>5, <1>6 DEF Sortable
  <1>8. ASSUME NEW i \in ChatsOf(I), NEW j \in ChatsOf(I), i < j
        PROVE  Precedes(Exported(i), Exported(j))
    <2>1. spans[i].start < spans[j].start
      BY <1>3, <1>8 DEF Talk, InTurn
    <2>2. /\ spans[i].start \in Events /\ spans[j].start \in Events
          /\ spans[i].start \in Nat /\ spans[j].start \in Nat
          /\ StampOf(spans[i].start) = clock[spans[i].start]
          /\ StampOf(spans[j].start) = clock[spans[j].start]
      BY <1>3, EndedStamps
    <2>3. clock[spans[i].start] <= clock[spans[j].start]
      BY <2>1, <2>2, ClockOf
    <2>4. Exported(i).start <= Exported(j).start
      BY <1>1, <2>2, <2>3
    <2>5. Exported(i).start \in Nat /\ Exported(j).start \in Nat /\ Exported(i).rank < Exported(j).rank
      BY <1>1, <1>4, <1>8
    <2>6. QED
      BY <2>4, <2>5 DEF Precedes
  <1>9. ASSUME NEW i \in ChatsOf(I), NEW j \in ChatsOf(I), Precedes(Exported(i), Exported(j))
        PROVE  i < j
    <2>1. ~Precedes(Exported(j), Exported(i)) /\ i # j
      BY <1>2, <1>7, <1>9, PrecedesIsOrder
    <2>2. ~(j < i)
      BY <1>8, <2>1
    <2>3. i \in Nat /\ j \in Nat
      BY <1>3
    <2>4. QED
      BY <2>1, <2>2, <2>3
  <1>10. QED
    BY <1>2, <1>7, <1>8, <1>9

\* Message m of chat i is at place at[i] + m of the Episode's conversation.
Spoken(I, at) ==
    LET turns == EpisodeOf(I).turns
        said_(i, m) == ChatTurns(Exported(i))[m]
    IN  /\ at \in [ChatsOf(I) -> Nat]
        /\ \A p \in DOMAIN turns : \E i \in ChatsOf(I) : \E m \in 1..Answer(i) :
              p = at[i] + m /\ turns[p] = said_(i, m)
        /\ \A i \in ChatsOf(I) : \A m \in 1..Answer(i) :
              /\ said_(i, m).captured =>
                    \E p \in DOMAIN turns : p <= at[i] + m /\ Same(turns[p], said_(i, m))
              /\ \A p \in DOMAIN turns : at[i] + m < p => ~Same(said_(i, m), turns[p])
        /\ \A i, j \in ChatsOf(I) : i < j => at[i] + Answer(i) <= at[j]

LEMMA TurnsAreSpoken ==
    ASSUME Inv, Talk, "outputs" \in captured, NEW I, I \subseteq Ended
    PROVE  \E at : Spoken(I, at)
  <1> DEFINE S == OfOp({Exported(i) : i \in I}, "chat")
             q == sortSpans(S)
             turns == EpisodeOf(I).turns
  <1>1. /\ S = {Exported(i) : i \in ChatsOf(I)} /\ Sortable(S)
        /\ \A i, j \in ChatsOf(I) : i < j <=> Precedes(Exported(i), Exported(j))
    BY ChatsInOrder
  <1>2. turns = Turns(q)
    BY DEF EpisodeOf, BuildEpisode
  <1>3. ChatsOf(I) \subseteq ChatsEnded
    BY DEF ChatsOf, ChatsEnded, Chats
  <1> HIDE DEF S
  <1>4. /\ q \in Seq(S) /\ Len(q) \in Nat
        /\ \A s \in S : \E k \in 1..Len(q) : q[k] = s
        /\ \A j, k \in 1..Len(q) : j < k => Precedes(q[j], q[k])
    BY <1>1, SpansSorted, LenProperties
  <1> HIDE DEF q, turns
  <1>5. \A k \in 1..Len(q) : \E i \in ChatsOf(I) : q[k] = Exported(i)
    BY <1>1, <1>4, ElementOfSeq
  <1>6. \A i \in ChatsOf(I) : /\ Len(ChatTurns(Exported(i))) = Answer(i)
                             /\ ChatTurns(Exported(i)) \in Seq(TurnSet)
    BY <1>3, ChatMessages
  <1>7. \A k \in 1..Len(q) : ChatTurns(q[k]) \in Seq(TurnSet)
    BY <1>5, <1>6
  <1>8. PICK o : PlacesOfTurns(q, o)
    BY <1>4, <1>7, TurnsPlaced
  <1> DEFINE place(i) == CHOOSE k \in 1..Len(q) : q[k] = Exported(i)
             at == [i \in ChatsOf(I) |-> o[place(i)]]
  <1>9. \A i \in ChatsOf(I) : place(i) \in 1..Len(q) /\ q[place(i)] = Exported(i)
    BY <1>1, <1>4
  <1>10. \A j, k \in 1..Len(q) : q[j] = q[k] => j = k
    <2> SUFFICES ASSUME NEW j \in 1..Len(q), NEW k \in 1..Len(q), q[j] = q[k], j # k
                 PROVE  FALSE
      OBVIOUS
    <2>1. Precedes(q[j], q[k]) \/ Precedes(q[k], q[j])
      <3>1. j < k \/ k < j
        BY <1>4
      <3>2. QED
        BY <1>4, <3>1
    <2>2. q[j] \in S /\ q[k] \in S
      BY <1>4, ElementOfSeq
    <2>3. QED
      BY <1>1, <2>1, <2>2, PrecedesIsOrder
  <1>11. ASSUME NEW i \in ChatsOf(I), NEW j \in ChatsOf(I), i < j
         PROVE  place(i) < place(j)
    <2>1. Precedes(q[place(i)], q[place(j)])
      BY <1>1, <1>9, <1>11
    <2>2. q[place(i)] \in S /\ q[place(j)] \in S
      BY <1>4, <1>9, ElementOfSeq
    <2>3. ~Precedes(q[place(j)], q[place(i)]) /\ q[place(i)] # q[place(j)]
      BY <1>1, <2>1, <2>2, PrecedesIsOrder
    <2>4. place(i) \in 1..Len(q) /\ place(j) \in 1..Len(q)
      BY <1>9
    <2> HIDE DEF place
    <2>5. ~(place(j) < place(i)) /\ place(i) # place(j)
      BY <1>4, <2>3, <2>4
    <2>6. QED
      BY <1>4, <2>4, <2>5
  <1> HIDE DEF place
  <1>12. at \in [ChatsOf(I) -> Nat]
    BY <1>8, <1>9 DEF PlacesOfTurns
  <1>13. ASSUME NEW p \in DOMAIN turns
         PROVE  \E i \in ChatsOf(I) : \E m \in 1..Answer(i) :
                    p = at[i] + m /\ turns[p] = ChatTurns(Exported(i))[m]
    <2>1. PICK k \in 1..Len(q) : \E m \in 1..Len(ChatTurns(q[k])) :
                p = o[k] + m /\ turns[p] = ChatTurns(q[k])[m]
      <3>1. \A r \in DOMAIN Turns(q) : \E k \in 1..Len(q) : \E m \in 1..Len(ChatTurns(q[k])) :
                r = o[k] + m /\ Turns(q)[r] = ChatTurns(q[k])[m]
        BY <1>8 DEF PlacesOfTurns
      <3>2. p \in DOMAIN Turns(q)
        BY <1>2, <1>13
      <3>3. QED
        BY <1>2, <3>1, <3>2
    <2>2. PICK i \in ChatsOf(I) : q[k] = Exported(i)
      BY <1>5
    <2>3. place(i) = k
      BY <1>9, <1>10, <2>2
    <2>4. QED
      BY <1>6, <2>1, <2>2, <2>3
  <1>14. ASSUME NEW i \in ChatsOf(I), NEW m \in 1..Answer(i)
         PROVE  /\ ChatTurns(Exported(i))[m].captured =>
                      \E p \in DOMAIN turns :
                          p <= at[i] + m /\ Same(turns[p], ChatTurns(Exported(i))[m])
                /\ \A p \in DOMAIN turns :
                      at[i] + m < p => ~Same(ChatTurns(Exported(i))[m], turns[p])
    <2>1. place(i) \in 1..Len(q) /\ q[place(i)] = Exported(i) /\ at[i] = o[place(i)]
      BY <1>9
    <2>2. m \in 1..Len(ChatTurns(q[place(i)]))
      BY <1>6, <2>1
    <2>3. ChatTurns(q[place(i)])[m].role # ""
      <3>1. ChatTurns(q[place(i)])[m] \in TurnSet
        BY <1>6, <2>1, <2>2, ElementOfSeq
      <3>2. QED
        BY <3>1 DEF TurnSet
    <2>4. QED
      BY <1>2, <1>8, <2>1, <2>2, <2>3 DEF PlacesOfTurns
  <1>15. ASSUME NEW i \in ChatsOf(I), NEW j \in ChatsOf(I), i < j
         PROVE  at[i] + Answer(i) <= at[j]
    <2>1. place(i) \in 1..Len(q) /\ place(j) \in 1..Len(q) /\ place(i) < place(j)
      BY <1>9, <1>11, <1>15
    <2>2. Len(ChatTurns(q[place(i)])) = Answer(i)
      BY <1>6, <1>9
    <2>3. QED
      BY <1>8, <2>1, <2>2 DEF PlacesOfTurns
  <1> HIDE DEF at
  <1>16. Spoken(I, at)
    BY <1>12, <1>13, <1>14, <1>15 DEF Spoken, turns
  <1>17. QED
    BY <1>16

\* The spans of I, with all that was over when one of them started.
Closed(I) == I \subseteq Ended /\ \A i \in I : Behind(i) \subseteq I

LEMMA BehindStartsEarlier ==
    ASSUME Inv, Talk, NEW i \in DOMAIN spans, NEW j \in Behind(i)
    PROVE  j \in Ended /\ j < i
  <1>1. j \in Ended /\ spans[j].end < spans[i].start
    BY DEF Behind
  <1>2. /\ j \in DOMAIN spans /\ spans[j].start < spans[j].end
        /\ spans[j].start \in Nat /\ spans[j].end \in Nat /\ spans[i].start \in Nat
    BY <1>1, EndedStamps, EventsOfSpan
  <1>3. ~(spans[i].start < spans[j].start) /\ i # j
    BY <1>1, <1>2
  <1>4. ~(i < j)
    BY <1>2, <1>3 DEF Talk, InTurn
  <1>5. i \in Nat /\ j \in Nat
    BY <1>2, EndedFinite
  <1>6. QED
    BY <1>1, <1>3, <1>4, <1>5

\* Every turn of the assistant is at the place of the answer of some chat: what a
\* chat was told of an answer is a repetition.
LEMMA AssistantTurnIsAnswer ==
    ASSUME Inv, Talk, "outputs" \in captured, NEW I, Closed(I), NEW at, Spoken(I, at),
           NEW p \in DOMAIN EpisodeOf(I).turns, EpisodeOf(I).turns[p].role = "assistant"
    PROVE  \E i \in ChatsOf(I) :
             /\ p = at[i] + Answer(i) /\ EpisodeOf(I).turns[p].text = Said(i)
             /\ EpisodeOf(I).turns[p].started = StampOf(spans[i].start)
  <1> DEFINE turns == EpisodeOf(I).turns
  <1>a. PICK i \in ChatsOf(I) : \E m \in 1..Answer(i) :
            p = at[i] + m /\ turns[p] = ChatTurns(Exported(i))[m]
    BY DEF Spoken
  <1>1. PICK m \in 1..Answer(i) : p = at[i] + m /\ turns[p] = ChatTurns(Exported(i))[m]
    BY <1>a
  <1>2. /\ ChatsOf(I) \subseteq ChatsEnded /\ I \subseteq Ended
        /\ \A j \in ChatsOf(I) : j \in I /\ j \in Ended /\ j \in DOMAIN spans /\ j \in Nat /\ Chats(j)
    BY EndedFinite DEF ChatsOf, ChatsEnded, Chats, Closed
  <1>3. \A j \in ChatsOf(I) : at[j] \in Nat /\ Len(Heard(j)) \in Nat
    BY <1>2, ChatMessages DEF Spoken
  <1>4. /\ \A j \in 1..Len(Heard(i)) :
              ChatTurns(Exported(i))[j] = Turn(Heard(i)[j].role, Heard(i)[j].text, Exported(i), TRUE)
        /\ \A j \in ChatsOf(I) :
              ChatTurns(Exported(j))[Answer(j)] = Turn("assistant", Said(j), Exported(j), TRUE)
    BY <1>2, ChatMessages
  <1> HIDE DEF turns
  <1>5. CASE m \in 1..Len(Heard(i))
    <2>1. turns[p] = Turn(Heard(i)[m].role, Heard(i)[m].text, Exported(i), TRUE)
      BY <1>1, <1>4, <1>5
    <2>2. turns[p].role = Heard(i)[m].role /\ turns[p].text = Heard(i)[m].text /\ turns[p].captured
      BY <2>1 DEF Turn
    <2>3. Heard(i)[m] \in ToSet(spans[i].in)
      <3>1. Heard(i) \in Seq(Message) /\ ToSet(Heard(i)) \subseteq ToSet(spans[i].in)
        BY <1>2, ChatMessages
      <3>2. DOMAIN Heard(i) = 1..Len(Heard(i))
        BY <3>1, LenProperties
      <3>3. QED
        BY <1>5, <3>1, <3>2 DEF ToSet
    <2>4. PICK j \in ChatsEnded \cap Behind(i) : Said(j) = turns[p].text
      <3>1. Authored(spans[i].in, ChatsEnded \cap Behind(i))
        BY <1>2 DEF Talk, Told
      <3>2. Heard(i)[m].role = "assistant"
        BY <2>2 DEF turns
      <3>3. QED
        BY <2>2, <2>3, <3>1, <3>2 DEF Authored
    <2>5. j \in ChatsOf(I) /\ j < i
      BY <1>2, <2>4, BehindStartsEarlier DEF ChatsOf, ChatsEnded, Chats, Closed
    <2>6. at[j] + Answer(j) <= at[i]
      BY <2>5 DEF Spoken
    <2>7. at[j] + Answer(j) < p
      <3>1. at[i] \in Nat /\ at[j] \in Nat /\ Answer(j) \in Nat /\ m \in Nat /\ m >= 1
        BY <1>3, <1>5, <2>5 DEF Answer
      <3>2. QED
        BY <1>1, <2>6, <3>1
    <2>8. Answer(j) \in 1..Answer(j)
      BY <1>3, <2>5 DEF Answer
    <2>9. ~Same(ChatTurns(Exported(j))[Answer(j)], turns[p])
      BY <2>5, <2>7, <2>8 DEF Spoken, turns
    <2>10. Same(ChatTurns(Exported(j))[Answer(j)], turns[p])
      <3>1. ChatTurns(Exported(j))[Answer(j)] = Turn("assistant", Said(j), Exported(j), TRUE)
        BY <1>4, <2>5
      <3>2. turns[p].role = "assistant"
        BY DEF turns
      <3>3. QED
        BY <2>2, <2>4, <3>1, <3>2 DEF Same, Turn
    <2>11. QED
      BY <2>9, <2>10
  <1>6. CASE m = Answer(i)
    <2>1. turns[p] = Turn("assistant", Said(i), Exported(i), TRUE)
      BY <1>1, <1>4, <1>6
    <2>2. turns[p].text = Said(i) /\ turns[p].started = StampOf(spans[i].start)
      BY <2>1 DEF Turn, Exported
    <2>3. QED
      BY <1>1, <1>6, <2>2 DEF turns
  <1>7. m \in 1..Len(Heard(i)) \/ m = Answer(i)
    BY <1>3 DEF Answer
  <1>8. QED
    BY <1>5, <1>6, <1>7

\* What a chat answers is a turn at the place of its answer or before.
LEMMA AnswerIsTurn ==
    ASSUME Inv, Talk, "outputs" \in captured, NEW I, Closed(I), NEW at, Spoken(I, at),
           NEW i \in ChatsOf(I)
    PROVE  \E p \in DOMAIN EpisodeOf(I).turns :
             /\ p <= at[i] + Answer(i) /\ EpisodeOf(I).turns[p].text = Said(i)
             /\ EpisodeOf(I).turns[p].role = "assistant" /\ EpisodeOf(I).turns[p].captured
  <1>1. i \in ChatsEnded
    BY DEF ChatsOf, ChatsEnded, Chats, Closed
  <1>2. /\ ChatTurns(Exported(i))[Answer(i)] = Turn("assistant", Said(i), Exported(i), TRUE)
        /\ Answer(i) \in 1..Answer(i)
    <2>1. Len(Heard(i)) \in Nat
      BY <1>1, ChatMessages
    <2>2. Answer(i) \in 1..Answer(i)
      BY <2>1 DEF Answer
    <2>3. QED
      BY <1>1, <2>2, ChatMessages
  <1>3. PICK p \in DOMAIN EpisodeOf(I).turns :
            /\ p <= at[i] + Answer(i)
            /\ Same(EpisodeOf(I).turns[p], ChatTurns(Exported(i))[Answer(i)])
    BY <1>2 DEF Spoken, Turn
  <1>4. QED
    BY <1>2, <1>3 DEF Same, Turn

\* A turn of the user before a chat's answer is a message that the chat was told.
LEMMA UserTurnWasTold ==
    ASSUME Inv, Talk, "outputs" \in captured, NEW I, Closed(I), NEW at, Spoken(I, at),
           NEW i \in ChatsOf(I), NEW u \in DOMAIN EpisodeOf(I).turns, u < at[i] + Answer(i),
           EpisodeOf(I).turns[u].role = "user"
    PROVE  \E m \in ToSet(spans[i].in) : m.role = "user" /\ m.text = EpisodeOf(I).turns[u].text
  <1> DEFINE turns == EpisodeOf(I).turns
  <1>1. PICK j \in ChatsOf(I) : \E m \in 1..Answer(j) :
            u = at[j] + m /\ turns[u] = ChatTurns(Exported(j))[m]
    BY DEF Spoken
  <1>2. PICK m \in 1..Answer(j) : u = at[j] + m /\ turns[u] = ChatTurns(Exported(j))[m]
    BY <1>1
  <1>3. /\ ChatsOf(I) \subseteq ChatsEnded
        /\ \A k \in ChatsOf(I) : k \in DOMAIN spans /\ k \in Nat /\ Chats(k)
    BY EndedFinite DEF ChatsOf, ChatsEnded, Chats, Closed
  <1>4. /\ Heard(j) \in Seq(Message) /\ Len(Heard(j)) \in Nat /\ at[j] \in Nat /\ at[i] \in Nat
        /\ ToSet(Heard(j)) \subseteq ToSet(spans[j].in) /\ Len(Heard(i)) \in Nat
        /\ \A k \in 1..Len(Heard(j)) :
              ChatTurns(Exported(j))[k] = Turn(Heard(j)[k].role, Heard(j)[k].text, Exported(j), TRUE)
        /\ ChatTurns(Exported(j))[Answer(j)] = Turn("assistant", Said(j), Exported(j), TRUE)
    BY <1>3, ChatMessages DEF Spoken
  <1>5. turns[u].role = "user"
    OBVIOUS
  <1> HIDE DEF turns
  <1>6. m # Answer(j)
    BY <1>2, <1>4, <1>5 DEF Turn
  <1>7. m \in 1..Len(Heard(j))
    BY <1>4, <1>6 DEF Answer
  <1>8. turns[u].role = Heard(j)[m].role /\ turns[u].text = Heard(j)[m].text
    <2>1. turns[u] = Turn(Heard(j)[m].role, Heard(j)[m].text, Exported(j), TRUE)
      BY <1>2, <1>4, <1>7
    <2>2. QED
      BY <2>1 DEF Turn
  <1>9. Heard(j)[m] \in ToSet(spans[j].in)
    <2>1. DOMAIN Heard(j) = 1..Len(Heard(j))
      BY <1>4, LenProperties
    <2>2. QED
      BY <1>4, <1>7, <2>1 DEF ToSet
  <1>10. ~(i < j)
    <2>1. i < j => at[i] + Answer(i) <= at[j]
      BY DEF Spoken
    <2>2. Answer(i) \in Nat /\ m >= 1 /\ m \in Nat
      BY <1>4, <1>7 DEF Answer
    <2>3. QED
      BY <1>2, <1>4, <2>1, <2>2
  <1>11. ToSet(spans[j].in) \subseteq ToSet(spans[i].in)
    <2>1. CASE i = j
      BY <2>1
    <2>2. CASE j < i
      BY <1>3, <2>2 DEF Talk, Told
    <2>3. i \in Nat /\ j \in Nat
      BY <1>3
    <2>4. QED
      BY <1>10, <2>1, <2>2, <2>3
  <1>12. QED
    BY <1>5, <1>8, <1>9, <1>11 DEF turns

\* What the user had said when a chat began is a turn before the chat's answer.
LEMMA ToldIsTurn ==
    ASSUME Inv, Talk, {"inputs", "outputs"} \subseteq captured, NEW I, Closed(I), NEW at, Spoken(I, at),
           NEW i \in ChatsOf(I), NEW m \in ToSet(spans[i].in)
    PROVE  \E u \in DOMAIN EpisodeOf(I).turns :
             /\ u < at[i] + Answer(i) /\ EpisodeOf(I).turns[u].role = m.role
             /\ EpisodeOf(I).turns[u].text = m.text
  <1>1. i \in ChatsEnded /\ Heard(i) = spans[i].in
    BY DEF ChatsOf, ChatsEnded, Chats, Closed, Heard
  <1>2. /\ Heard(i) \in Seq(Message) /\ Len(Heard(i)) \in Nat /\ at[i] \in Nat
        /\ \A k \in 1..Len(Heard(i)) :
              ChatTurns(Exported(i))[k] = Turn(Heard(i)[k].role, Heard(i)[k].text, Exported(i), TRUE)
    BY <1>1, ChatMessages DEF Spoken
  <1>3. PICK k \in 1..Len(Heard(i)) : Heard(i)[k] = m
    BY <1>1, <1>2, LenProperties DEF ToSet
  <1>4. ChatTurns(Exported(i))[k] = Turn(m.role, m.text, Exported(i), TRUE)
    BY <1>2, <1>3
  <1>5. k \in 1..Answer(i) /\ k < Answer(i) /\ Answer(i) \in Nat
    BY <1>2 DEF Answer
  <1>6. ChatTurns(Exported(i))[k].captured
    BY <1>4 DEF Turn
  <1>7. PICK u \in DOMAIN EpisodeOf(I).turns :
            u <= at[i] + k /\ Same(EpisodeOf(I).turns[u], ChatTurns(Exported(i))[k])
    BY <1>5, <1>6 DEF Spoken
  <1>8. u \in Nat
    BY EndedFinite, ChatMessages DEF Spoken
  <1>9. u < at[i] + Answer(i)
    BY <1>2, <1>5, <1>7, <1>8
  <1>10. QED
    BY <1>4, <1>7, <1>9 DEF Same, Turn

-----------------------------------------------------------------------------
(* The sources of what a chat answers.                                     *)

\* A call that was over when chat i began had completed before its turn; and no
\* other had, if stamps tell events apart.
LEMMA BehindIsCompleted ==
    ASSUME Inv, NEW i \in Ended, NEW j \in Behind(i), NEW turn, turn.started = StampOf(spans[i].start)
    PROVE  completedBefore(toolCallFrom(Exported(j)), turn)
  <1>1. j \in Ended /\ spans[j].end <= spans[i].start
    BY EndedStamps DEF Behind
  <1>2. /\ StampOf(spans[j].end) \in Stamps /\ StampOf(spans[i].start) \in Stamps
        /\ StampOf(spans[j].end) <= StampOf(spans[i].start)
    BY <1>1, EndedStamps, ClockOf
  <1>3. StampOf(spans[j].end) # 0 /\ StampOf(spans[i].start) # 0
    BY <1>2, Bounds DEF Stamps
  <1>4. QED
    BY <1>2, <1>3, CallFields DEF completedBefore

LEMMA CompletedIsBehind ==
    ASSUME Inv, Distinct(Exact), NEW i \in Ended, NEW j \in Ended, i # j,
           NEW turn, turn.started = StampOf(spans[i].start),
           completedBefore(toolCallFrom(Exported(j)), turn)
    PROVE  j \in Behind(i)
  <1>1. StampOf(spans[j].end) <= StampOf(spans[i].start)
    BY CallFields DEF completedBefore
  <1>2. StampOf(spans[j].end) \in Stamps /\ StampOf(spans[i].start) \in Stamps
    BY EndedStamps
  <1>3. \A t \in Stamps : Exact[t] = t
    BY Bounds DEF Exact, Stamps
  <1>4. StampOf(spans[j].end) # StampOf(spans[i].start)
    BY <1>2, <1>3, EndedStamps DEF Distinct
  <1>5. ~(StampOf(spans[i].start) <= StampOf(spans[j].end))
    BY <1>1, <1>2, <1>4, Bounds DEF Stamps
  <1>6. ~(spans[i].start <= spans[j].end)
    BY <1>5, EndedStamps, ClockOf
  <1>7. spans[j].end < spans[i].start
    BY <1>6, EndedStamps
  <1>8. QED
    BY <1>7 DEF Behind

\* What a call has of its span.
LEMMA CallTexts ==
    ASSUME NEW i
    PROVE  LET tc == toolCallFrom(Exported(i))
           IN  /\ tc.argsCaptured = ("args" \in captured) /\ tc.resultCaptured = ("results" \in captured)
               /\ "args" \in captured => tc.args = spans[i].args
               /\ "results" \in captured => tc.result = spans[i].result
  BY DEF toolCallFrom, Exported

LEMMA EndedIsClosed == ASSUME Inv PROVE Closed(Ended) /\ ChatsOf(Ended) = ChatsEnded
  BY DEF Closed, Behind, ChatsOf, ChatsEnded, Chats

LEMMA ChatIsNoCall ==
    ASSUME NEW i \in ChatsEnded, NEW j \in CallsEnded
    PROVE  i # j /\ i \in Ended /\ j \in Ended
  BY DEF ChatsEnded, CallsEnded

\* What the Episode has as a source of a value in a chat's answer, the chat knew, if
\* stamps tell events apart.
LEMMA SourceIsKnown ==
    ASSUME Inv, Talk, "outputs" \in captured, Distinct(Exact), NEW at, Spoken(Ended, at),
           NEW i \in ChatsEnded, NEW p \in DOMAIN Episode.turns, p = at[i] + Answer(i),
           Episode.turns[p].started = StampOf(spans[i].start),
           NEW tok, valueAppearsBefore(Episode, p, tok)
    PROVE  normalize(tok) \in Known(i)
  <1> DEFINE users == {m.text : m \in {m \in ToSet(spans[i].in) : m.role = "user"}}
  <1>1. /\ \A t \in users : t \subseteq Known(i)
        /\ \A j \in Behind(i) : spans[j].args \subseteq Known(i) /\ spans[j].result \subseteq Known(i)
    BY DEF Known
  <1>2. CASE \E tc \in Episode.tool_calls :
                /\ completedBefore(tc, Episode.turns[p])
                /\ \/ tc.resultCaptured /\ Mentions(tc.result, tok)
                   \/ tc.argsCaptured /\ Mentions(tc.args, tok)
    <2>1. PICK j \in CallsEnded :
                LET tc == toolCallFrom(Exported(j))
                IN  /\ completedBefore(tc, Episode.turns[p])
                    /\ \/ tc.resultCaptured /\ Mentions(tc.result, tok)
                       \/ tc.argsCaptured /\ Mentions(tc.args, tok)
      BY <1>2, CallsHaveEnded
    <2>2. j \in Behind(i)
      BY <2>1, ChatIsNoCall, CompletedIsBehind
    <2>3. normalize(tok) \in spans[j].result \/ normalize(tok) \in spans[j].args
      BY <2>1, CallTexts DEF Mentions
    <2>4. QED
      BY <1>1, <2>2, <2>3
  <1>3. CASE \E u \in DOMAIN Episode.turns :
                u < p /\ Episode.turns[u].role = "user" /\ Mentions(Episode.turns[u].text, tok)
    <2>1. PICK u \in DOMAIN Episode.turns :
                u < p /\ Episode.turns[u].role = "user" /\ Mentions(Episode.turns[u].text, tok)
      BY <1>3
    <2>2. PICK m \in ToSet(spans[i].in) : m.role = "user" /\ m.text = Episode.turns[u].text
      BY <2>1, EndedIsClosed, UserTurnWasTold DEF Episode
    <2>3. m.text \in users
      BY <2>2
    <2>4. QED
      BY <1>1, <2>1, <2>2, <2>3 DEF Mentions
  <1>4. QED
    BY <1>2, <1>3 DEF valueAppearsBefore

\* And what the chat knew, the Episode has as a source, if all was captured.
LEMMA KnownIsSource ==
    ASSUME Inv, Talk, captured = Contents, NEW I, Closed(I), NEW at, Spoken(I, at),
           NEW i \in ChatsOf(I), NEW p \in DOMAIN EpisodeOf(I).turns, p = at[i] + Answer(i),
           EpisodeOf(I).turns[p].started = StampOf(spans[i].start),
           NEW tok, normalize(tok) \in Known(i)
    PROVE  valueAppearsBefore(EpisodeOf(I), p, tok)
  <1>1. {"inputs", "outputs"} \subseteq captured /\ "args" \in captured /\ "results" \in captured
    BY DEF Contents
  <1>2. CASE \E m \in ToSet(spans[i].in) : m.role = "user" /\ normalize(tok) \in m.text
    <2>1. PICK m \in ToSet(spans[i].in) : m.role = "user" /\ normalize(tok) \in m.text
      BY <1>2
    <2>2. PICK u \in DOMAIN EpisodeOf(I).turns :
                u < p /\ EpisodeOf(I).turns[u].role = m.role /\ EpisodeOf(I).turns[u].text = m.text
      BY <1>1, ToldIsTurn
    <2>3. QED
      BY <2>1, <2>2 DEF valueAppearsBefore, Mentions
  <1>3. CASE \E j \in Behind(i) : normalize(tok) \in spans[j].args \cup spans[j].result
    <2>1. PICK j \in Behind(i) : normalize(tok) \in spans[j].args \cup spans[j].result
      BY <1>3
    <2>2. j \in Ended /\ j \in DOMAIN spans /\ j \in I
      BY EndedFinite DEF Behind, Closed, ChatsOf
    <2>3. j \in CallsOf(I)
      <3>1. ~Chats(j)
        BY <2>1, <2>2 DEF Talk, Answered
      <3>2. spans[j].op \in {"chat", "execute_tool"}
        BY <2>2, SpanFields DEF Inv
      <3>3. QED
        BY <2>2, <3>1, <3>2 DEF Chats, Calls, CallsOf
    <2> DEFINE tc == toolCallFrom(Exported(j))
    <2>4. tc \in EpisodeOf(I).tool_calls
      <3>1. I \subseteq DOMAIN spans
        BY EndedFinite DEF Closed
      <3>2. QED
        BY <2>3, <3>1, CallsOfEpisode
    <2>5. completedBefore(tc, EpisodeOf(I).turns[p])
      BY BehindIsCompleted DEF ChatsOf, Closed
    <2>6. tc.argsCaptured /\ tc.resultCaptured /\ tc.args = spans[j].args /\ tc.result = spans[j].result
      BY <1>1, CallTexts
    <2> HIDE DEF tc
    <2>7. QED
      BY <2>1, <2>4, <2>5, <2>6 DEF valueAppearsBefore, Mentions
  <1>4. QED
    BY <1>2, <1>3 DEF Known

LEMMA NormalizeKeepsValue == ASSUME NEW tok \in Tokens PROVE normalize(tok).value = tok.value
  <1>1. tok = [value |-> tok.value, form |-> tok.form]
    BY TokensAssumption
  <1>2. [[value |-> tok.value, form |-> tok.form] EXCEPT !.form = "plain"].value = tok.value
    OBVIOUS
  <1>3. QED
    BY <1>1, <1>2, Zenon DEF normalize

LEMMA TextsHaveTokens == \A t \in Texts : \A tok \in t : tok \in Tokens
  BY TextsAssumption

\* A chat knows what those before it knew.
LEMMA KnownGrows ==
    ASSUME Inv, Talk, NEW i \in ChatsEnded, NEW j \in ChatsEnded, ~(i < j)
    PROVE  Known(j) \subseteq Known(i)
  <1>1. j \in DOMAIN spans /\ i \in DOMAIN spans /\ Chats(i) /\ Chats(j) /\ i \in Nat /\ j \in Nat
    BY EndedFinite DEF ChatsEnded, Chats
  <1>2. CASE i = j
    BY <1>2
  <1>3. CASE j < i
    <2>1. ToSet(spans[j].in) \subseteq ToSet(spans[i].in)
      BY <1>1, <1>3 DEF Talk, Told
    <2>2. spans[j].start < spans[i].start
      BY <1>1, <1>3 DEF Talk, InTurn
    <2>3. Behind(j) \subseteq Behind(i)
      <3> SUFFICES ASSUME NEW k \in Behind(j) PROVE k \in Behind(i)
        OBVIOUS
      <3>1. /\ k \in Ended /\ spans[k].end < spans[j].start /\ spans[k].end \in Nat
            /\ spans[j].start \in Nat /\ spans[i].start \in Nat
        BY <1>1, EndedStamps, EventsOfSpan DEF Behind
      <3>2. QED
        BY <2>2, <3>1 DEF Behind
    <2>4. QED
      BY <2>1, <2>3 DEF Known
  <1>4. QED
    BY <1>1, <1>2, <1>3

\* What a chat answers is a turn, that of the first chat to answer so, which knew no more.
LEMMA FirstSaid ==
    ASSUME Inv, Talk, "outputs" \in captured, NEW I, Closed(I), NEW at, Spoken(I, at),
           NEW i \in ChatsOf(I)
    PROVE  \E p \in DOMAIN EpisodeOf(I).turns, j \in ChatsOf(I) :
             /\ p = at[j] + Answer(j) /\ EpisodeOf(I).turns[p].text = Said(i)
             /\ EpisodeOf(I).turns[p].role = "assistant" /\ EpisodeOf(I).turns[p].captured
             /\ EpisodeOf(I).turns[p].started = StampOf(spans[j].start)
             /\ Known(j) \subseteq Known(i)
  <1>1. PICK p \in DOMAIN EpisodeOf(I).turns :
            /\ p <= at[i] + Answer(i) /\ EpisodeOf(I).turns[p].text = Said(i)
            /\ EpisodeOf(I).turns[p].role = "assistant" /\ EpisodeOf(I).turns[p].captured
    BY AnswerIsTurn
  <1>2. PICK j \in ChatsOf(I) :
            /\ p = at[j] + Answer(j) /\ EpisodeOf(I).turns[p].text = Said(j)
            /\ EpisodeOf(I).turns[p].started = StampOf(spans[j].start)
    BY <1>1, AssistantTurnIsAnswer
  <1>3. i \in ChatsEnded /\ j \in ChatsEnded
    BY DEF ChatsOf, ChatsEnded, Chats, Closed
  <1>4. ~(i < j)
    <2>1. i < j => at[i] + Answer(i) <= at[j]
      BY DEF Spoken
    <2>2. at[i] \in Nat /\ at[j] \in Nat
      BY DEF Spoken
    <2>3. Answer(i) \in Nat /\ Answer(j) \in Nat /\ Answer(j) >= 1
      BY <1>3, ChatMessages DEF Answer
    <2>4. QED
      BY <1>1, <1>2, <2>1, <2>2, <2>3
  <1>5. QED
    BY <1>1, <1>2, <1>3, <1>4, KnownGrows

\* A turn and its text, as the extractor makes a claim of it.
LEMMA ClaimsAreTurns ==
    ASSUME NEW ep, NEW claim \in Structural(ep)
    PROVE  /\ claim.turn \in DOMAIN ep.turns /\ ep.turns[claim.turn].role = "assistant"
           /\ claim.text = ep.turns[claim.turn].text
           /\ claim.support = supportingCalls(ep, claim.turn)
  BY DEF Structural

\* Whatever an assistant says that it can not have known is reported, in every session
\* whose answers are captured and whose stamps tell its events apart.
THEOREM InventionsAreReported == Spec => []NoInventionPasses
  <1>1. ASSUME Inv, Talk, "outputs" \in captured, Distinct(Exact), Covered(Episode),
               NEW i \in ChatsEnded, NEW tok \in Said(i), \A k \in Known(i) : k.value # tok.value
        PROVE  \E claim \in evalNoUnsourcedClaims(Episode, Structural(Episode)) : claim.text = Said(i)
    <2>1. PICK at : Spoken(Ended, at)
      BY <1>1, TurnsAreSpoken
    <2>2. PICK p \in DOMAIN Episode.turns, j \in ChatsEnded :
              /\ p = at[j] + Answer(j) /\ Episode.turns[p].text = Said(i)
              /\ Episode.turns[p].role = "assistant" /\ Episode.turns[p].captured
              /\ Episode.turns[p].started = StampOf(spans[j].start)
              /\ Known(j) \subseteq Known(i)
      BY <1>1, <2>1, EndedIsClosed, FirstSaid DEF Episode
    <2>3. ~valueAppearsBefore(Episode, p, tok)
      <3>1. Said(i) \in Texts
        BY <1>1, ChatMessages
      <3>2. normalize(tok).value = tok.value
        BY <1>1, <3>1, TextsHaveTokens, NormalizeKeepsValue
      <3>3. valueAppearsBefore(Episode, p, tok) => normalize(tok) \in Known(j)
        BY <1>1, <2>1, <2>2, SourceIsKnown
      <3>4. QED
        BY <1>1, <2>2, <3>2, <3>3
    <2> DEFINE claim == [turn |-> p, text |-> Said(i), support |-> supportingCalls(Episode, p)]
    <2>4. claim \in Structural(Episode)
      BY <1>1, <2>2 DEF Structural
    <2>5. tok \in Unsupported(Episode, claim)
      BY <1>1, <2>3 DEF Unsupported
    <2>6. claim \in evalNoUnsourcedClaims(Episode, Structural(Episode)) /\ claim.text = Said(i)
      BY <1>1, <2>4, <2>5 DEF evalNoUnsourcedClaims
    <2>7. QED
      BY <2>6
  <1>2. Inv /\ Talk => NoInventionPasses
    BY <1>1 DEF NoInventionPasses
  <1>3. QED
    BY <1>2, TalkInductive, PTL

\* A call that supports a claim was over when the chat that makes it began, in every
\* session whose answers are captured and whose stamps tell its events apart.
THEOREM SupportPrecedesClaim == Spec => []SupportWasThere
  <1>1. ASSUME Inv, Talk, "outputs" \in captured, Distinct(Exact), NEW claim \in Structural(Episode)
        PROVE  \E i \in ChatsEnded : Said(i) = claim.text /\ SpansOf(claim.support) \subseteq Behind(i)
    <2>1. PICK at : Spoken(Ended, at)
      BY <1>1, TurnsAreSpoken
    <2> DEFINE p == claim.turn
    <2>2. /\ p \in DOMAIN Episode.turns /\ Episode.turns[p].role = "assistant"
          /\ claim.text = Episode.turns[p].text /\ claim.support = supportingCalls(Episode, p)
      BY <1>1, ClaimsAreTurns
    <2>3. PICK i \in ChatsEnded :
              /\ p = at[i] + Answer(i) /\ Episode.turns[p].text = Said(i)
              /\ Episode.turns[p].started = StampOf(spans[i].start)
      BY <1>1, <2>1, <2>2, EndedIsClosed, AssistantTurnIsAnswer DEF Episode
    <2>4. ASSUME NEW j \in SpansOf(claim.support) PROVE j \in Behind(i)
      <3>1. PICK tc \in supportingCalls(Episode, p) : j = tc.span
        BY <2>2 DEF SpansOf
      <3>2. PICK k \in CallsEnded : tc = toolCallFrom(Exported(k))
        BY <1>1, <3>1, CallsHaveEnded DEF supportingCalls
      <3>3. completedBefore(toolCallFrom(Exported(k)), Episode.turns[p]) /\ j = k
        BY <3>1, <3>2, CallFields DEF supportingCalls
      <3>4. QED
        BY <1>1, <2>3, <3>3, ChatIsNoCall, CompletedIsBehind
    <2>5. QED
      BY <2>2, <2>3, <2>4
  <1>2. Inv /\ Talk => SupportWasThere
    BY <1>1 DEF SupportWasThere
  <1>3. QED
    BY <1>2, TalkInductive, PTL

\* Claims of a quote from an assistant's turn are about that turn.
LEMMA QuotesAreOfTurns ==
    ASSUME NEW ep, NEW claim \in Gate(ep, RowsOf(ep, AssistantTurns(ep)))
    PROVE  /\ claim.turn \in DOMAIN ep.turns /\ ep.turns[claim.turn].role = "assistant"
           /\ claim.text \subseteq ep.turns[claim.turn].text
  <1>1. PICK row \in RowsOf(ep, AssistantTurns(ep)) :
            /\ claim = [turn |-> turnOf(row.source), text |-> row.snippet, support |-> {}]
            /\ Locate(row.source.text, row.snippet)
    BY DEF Gate
  <1>2. row.source \in AssistantTurns(ep) /\ row.snippet \subseteq row.source.text
    BY <1>1 DEF RowsOf, Locate
  <1>3. /\ row.source \in Sources(ep) /\ row.source.kind = "turn"
        /\ ep.turns[row.source.at].role = "assistant"
    BY <1>2 DEF AssistantTurns
  <1>4. PICK k \in DOMAIN ep.turns : row.source = [kind |-> "turn", at |-> k, text |-> ep.turns[k].text]
    BY <1>3 DEF Sources
  <1>5. turnOf(row.source) = k
    BY <1>3, <1>4 DEF turnOf
  <1>6. QED
    BY <1>1, <1>2, <1>3, <1>4, <1>5

\* Nothing the agent did know is reported as invented, in every session of which all is
\* captured, whatever its clock: not in its own claims, and not in any quote of them.
THEOREM KnowledgeIsNotAccused == Spec => []NothingSourcedIsAccused
  <1>1. ASSUME Inv, Talk, captured = Contents,
               NEW claim \in evalNoUnsourcedClaims(Episode,
                        Structural(Episode) \cup Gate(Episode, RowsOf(Episode, AssistantTurns(Episode))))
        PROVE  \E i \in ChatsEnded : /\ claim.text \subseteq Said(i)
                                    /\ \E tok \in claim.text : normalize(tok) \notin Known(i)
    <2> DEFINE p == claim.turn
    <2>1. "outputs" \in captured
      BY <1>1 DEF Contents
    <2>2. PICK at : Spoken(Ended, at)
      BY <1>1, <2>1, TurnsAreSpoken
    <2>3. /\ claim \in Structural(Episode) \/ claim \in Gate(Episode, RowsOf(Episode, AssistantTurns(Episode)))
          /\ Unsupported(Episode, claim) # {}
      BY <1>1 DEF evalNoUnsourcedClaims
    <2>4. /\ p \in DOMAIN Episode.turns /\ Episode.turns[p].role = "assistant"
          /\ claim.text \subseteq Episode.turns[p].text
      BY <2>3, ClaimsAreTurns, QuotesAreOfTurns
    <2>5. PICK i \in ChatsEnded :
              /\ p = at[i] + Answer(i) /\ Episode.turns[p].text = Said(i)
              /\ Episode.turns[p].started = StampOf(spans[i].start)
      BY <1>1, <2>1, <2>2, <2>4, EndedIsClosed, AssistantTurnIsAnswer DEF Episode
    <2>6. PICK tok \in claim.text : ~valueAppearsBefore(Episode, p, tok)
      BY <2>3 DEF Unsupported
    <2>7. normalize(tok) \notin Known(i)
      BY <1>1, <2>2, <2>4, <2>5, <2>6, EndedIsClosed, KnownIsSource DEF Episode
    <2>8. QED
      BY <2>4, <2>5, <2>7
  <1>2. Inv /\ Talk => NothingSourcedIsAccused
    BY <1>1 DEF NothingSourcedIsAccused
  <1>3. QED
    BY <1>2, TalkInductive, PTL

-----------------------------------------------------------------------------
(* Verdicts on a prefix.                                                   *)

LEMMA PrefixIsClosed ==
    ASSUME Inv, NEW n \in Nat
    PROVE  Closed({i \in Ended : spans[i].end <= n})
  <1> SUFFICES ASSUME NEW i \in Ended, spans[i].end <= n, NEW j \in Behind(i)
               PROVE  j \in Ended /\ spans[j].end <= n
    BY DEF Closed
  <1>1. j \in Ended /\ spans[j].end < spans[i].start
    BY DEF Behind
  <1>2. /\ spans[i].start < spans[i].end /\ spans[i].start \in Nat /\ spans[i].end \in Nat
        /\ spans[j].end \in Nat
    BY <1>1, EndedStamps
  <1>3. QED
    BY <1>1, <1>2

\* What is reported of the calls of I, more spans do not take back.
LEMMA MoreCalls ==
    ASSUME Inv, NEW I, Closed(I)
    PROVE  /\ EpisodeOf(I).tool_calls = {toolCallFrom(Exported(i)) : i \in CallsOf(I)}
           /\ CallsOf(I) \subseteq CallsEnded
           /\ EpisodeOf(I).tool_calls \subseteq Episode.tool_calls
  <1>1. I \subseteq Ended /\ I \subseteq DOMAIN spans
    BY EndedFinite DEF Closed
  <1>2. CallsOf(I) \subseteq CallsEnded
    BY <1>1 DEF CallsOf, CallsEnded, Calls
  <1>3. QED
    BY <1>1, <1>2, CallsOfEpisode, CallsHaveEnded

LEMMA MorePreconditions ==
    ASSUME Inv, Distinct(Float), NEW I, Closed(I),
           requires_precondition_violation(EpisodeOf(I).tool_calls, Action, Precondition) # {}
    PROVE  requires_precondition_violation(Episode.tool_calls, Action, Precondition) # {}
  <1>1. PICK i \in CallsOf(I) :
            /\ matches(Action, toolCallFrom(Exported(i)).name)
            /\ ~has_precondition(EpisodeOf(I).tool_calls, Precondition, toolCallFrom(Exported(i)))
    BY MoreCalls DEF requires_precondition_violation
  <1>2. ASSUME has_precondition(Episode.tool_calls, Precondition, toolCallFrom(Exported(i)))
        PROVE  FALSE
    <2>1. PICK j \in CallsEnded :
              LET c == toolCallFrom(Exported(j))
              IN  matches(Precondition, c.name) /\ ~c.error /\ Over(c, toolCallFrom(Exported(i)))
      BY <1>2, CallsHaveEnded DEF has_precondition
    <2>2. i \in Ended /\ j \in Ended /\ i \in I /\ Calls(j)
      BY DEF CallsOf, Closed, CallsEnded, Calls
    <2>3. j \in I
      BY <2>1, <2>2, OverIsBehind DEF Closed
    <2>4. j \in CallsOf(I)
      BY <2>2, <2>3 DEF CallsOf
    <2>5. QED
      BY <1>1, <2>1, <2>4, MoreCalls DEF has_precondition
  <1>3. QED
    BY <1>1, <1>2, MoreCalls DEF requires_precondition_violation

LEMMA MoreOverLimit ==
    ASSUME Inv, NEW I, Closed(I), call_limit_violation(EpisodeOf(I).tool_calls, <<Star>>, Limit)
    PROVE  call_limit_violation(Episode.tool_calls, <<Star>>, Limit)
  <1> DEFINE A == {tc \in EpisodeOf(I).tool_calls : matches(<<Star>>, tc.name)}
             B == {tc \in Episode.tool_calls : matches(<<Star>>, tc.name)}
  <1>1. A \in SUBSET B
    BY MoreCalls
  <1>2. IsFiniteSet(CallsEnded)
    BY EndedFinite, FS_Subset
  <1>3. IsFiniteSet(Episode.tool_calls)
    <2> DEFINE f == [i \in CallsEnded |-> toolCallFrom(Exported(i))]
    <2>1. f \in Surjection(CallsEnded, Episode.tool_calls)
      BY CallsHaveEnded DEF Surjection
    <2>2. QED
      BY <1>2, <2>1, FS_Surjection
  <1>4. B \in SUBSET Episode.tool_calls
    OBVIOUS
  <1> HIDE DEF A, B
  <1>5. IsFiniteSet(B) /\ IsFiniteSet(A) /\ Cardinality(A) <= Cardinality(B)
    BY <1>1, <1>3, <1>4, FS_Subset
  <1>6. Cardinality(A) \in Nat /\ Cardinality(B) \in Nat
    BY <1>5, FS_CardinalityType
  <1>7. Cardinality(A) > Limit
    BY DEF call_limit_violation, A
  <1>8. Cardinality(B) > Limit
    BY <1>5, <1>6, <1>7, Bounds
  <1>9. QED
    BY <1>8 DEF call_limit_violation, B

LEMMA MoreCovered ==
    ASSUME NEW I, I \subseteq Ended, Covered(EpisodeOf(I))
    PROVE  Covered(Episode)
  <1> DEFINE S == {Exported(i) : i \in I}
             T == {Exported(i) : i \in Ended}
  <1>1. S \subseteq T
    OBVIOUS
  <1>2. EpisodeOf(I).coverage = Coverage(S) /\ Episode.coverage = Coverage(T)
    BY DEF Episode, EpisodeOf, BuildEpisode
  <1> HIDE DEF S, T
  <1>3. Coverage(S) \subseteq Coverage(T)
    BY <1>1 DEF Coverage, Called, OfOp
  <1>4. QED
    BY <1>2, <1>3 DEF Covered

LEMMA MoreInvented ==
    ASSUME Inv, Talk, captured = Contents, Distinct(Exact), NEW I, Closed(I),
           evalNoUnsourcedClaims(EpisodeOf(I), Structural(EpisodeOf(I))) # {}
    PROVE  evalNoUnsourcedClaims(Episode, Structural(Episode)) # {}
  <1>1. "outputs" \in captured
    BY DEF Contents
  <1>2. PICK claim \in Structural(EpisodeOf(I)) :
            Covered(EpisodeOf(I)) /\ Unsupported(EpisodeOf(I), claim) # {}
    BY DEF evalNoUnsourcedClaims
  <1> DEFINE p == claim.turn
  <1>3. /\ p \in DOMAIN EpisodeOf(I).turns /\ EpisodeOf(I).turns[p].role = "assistant"
        /\ claim.text = EpisodeOf(I).turns[p].text
    BY <1>2, ClaimsAreTurns
  <1>4. PICK tok \in claim.text : ~valueAppearsBefore(EpisodeOf(I), p, tok)
    BY <1>2 DEF Unsupported
  <1>5. PICK at : Spoken(I, at)
    BY <1>1, TurnsAreSpoken DEF Closed
  <1>6. PICK i \in ChatsOf(I) :
            /\ p = at[i] + Answer(i) /\ EpisodeOf(I).turns[p].text = Said(i)
            /\ EpisodeOf(I).turns[p].started = StampOf(spans[i].start)
    BY <1>1, <1>3, <1>5, AssistantTurnIsAnswer
  <1>7. normalize(tok) \notin Known(i) /\ tok \in Said(i)
    BY <1>3, <1>4, <1>5, <1>6, KnownIsSource
  <1> HIDE DEF p
  <1>8. PICK all : Spoken(Ended, all)
    BY <1>1, TurnsAreSpoken
  <1>9. i \in ChatsEnded
    BY DEF ChatsOf, ChatsEnded, Chats, Closed
  <1>10. PICK q \in DOMAIN Episode.turns, j \in ChatsEnded :
             /\ q = all[j] + Answer(j) /\ Episode.turns[q].text = Said(i)
             /\ Episode.turns[q].role = "assistant" /\ Episode.turns[q].captured
             /\ Episode.turns[q].started = StampOf(spans[j].start)
             /\ Known(j) \subseteq Known(i)
    BY <1>1, <1>8, <1>9, EndedIsClosed, FirstSaid DEF Episode
  <1>11. ~valueAppearsBefore(Episode, q, tok)
    <2>1. valueAppearsBefore(Episode, q, tok) => normalize(tok) \in Known(j)
      BY <1>1, <1>8, <1>10, SourceIsKnown
    <2>2. QED
      BY <1>7, <1>10, <2>1
  <1> DEFINE c == [turn |-> q, text |-> Said(i), support |-> supportingCalls(Episode, q)]
  <1>12. c \in Structural(Episode)
    BY <1>7, <1>10 DEF Structural
  <1>13. tok \in Unsupported(Episode, c)
    BY <1>7, <1>11 DEF Unsupported
  <1>14. c \in evalNoUnsourcedClaims(Episode, Structural(Episode))
    BY <1>2, <1>12, <1>13, MoreCovered DEF evalNoUnsourcedClaims, Closed
  <1>15. QED
    BY <1>14

LEMMA RoundedApartIsApart == ASSUME Inv, Distinct(Float) PROVE Distinct(Exact)
  <1>1. ASSUME NEW i \in DOMAIN spans
        PROVE  StampOf(spans[i].start) \in 0..MaxStamp /\ StampOf(spans[i].end) \in 0..MaxStamp
    <2>1. /\ spans[i].start \in Events /\ spans[i].end \in Events \cup {0}
          /\ \A e \in Events : e # 0
      BY SpanFields, EventsAreNat DEF Inv
    <2>2. \A e \in Events : clock[e] \in 0..MaxStamp
      BY ClockOf, Bounds
    <2>3. 0 \in 0..MaxStamp
      BY Bounds
    <2>4. QED
      BY <2>1, <2>2, <2>3 DEF StampOf
  <1>2. \A t \in 0..MaxStamp : Exact[t] = t
    BY DEF Exact
  <1>3. QED
    BY <1>1, <1>2 DEF Distinct

\* A clause that is decidable on a prefix and fails on the spans exported up to some
\* event fails on all of them, in every session of which all is captured and whose
\* rounded stamps tell its events apart.
THEOREM FailuresOnPrefixesStand == Spec => []PrefixVerdictsStand
  <1>1. ASSUME Inv, Talk, captured = Contents, Distinct(Float), NEW n \in 1..(now - 1)
        PROVE  Failing({i \in Ended : spans[i].end <= n}) \subseteq Failing(Ended)
    <2> DEFINE I == {i \in Ended : spans[i].end <= n}
    <2>1. n \in Nat
      OBVIOUS
    <2>2. Closed(I)
      BY <1>1, <2>1, PrefixIsClosed
    <2>3. Distinct(Exact)
      BY <1>1, RoundedApartIsApart
    <2> HIDE DEF I
    <2>4. EpisodeOf(I).tool_calls \subseteq Episode.tool_calls
      BY <1>1, <2>2, MoreCalls
    <2>5. ASSUME NEW kind \in Failing(I) PROVE kind \in Failing(Ended)
      <3>1. kind \in PrefixKinds
        BY <2>5 DEF Failing
      <3>2. CASE kind = "tool.allowlist"
        BY <2>4, <2>5, <3>2 DEF Failing, allowlist_violation, Episode
      <3>3. CASE kind = "tool.denylist"
        BY <2>4, <2>5, <3>3 DEF Failing, denylist_violation, Episode
      <3>4. CASE kind = "tool.call_limit"
        BY <1>1, <2>2, <2>5, <3>1, <3>4, MoreOverLimit DEF Failing, Episode
      <3>5. CASE kind = "order.requires_precondition"
        BY <1>1, <2>2, <2>5, <3>1, <3>5, MorePreconditions DEF Failing, Episode
      <3>6. CASE kind = "order.before"
        BY <2>4, <2>5, <3>6 DEF Failing, before_violation, Episode
      <3>7. CASE kind = "grounding.no_unsourced_claims"
        BY <1>1, <2>2, <2>3, <2>5, <3>1, <3>7, MoreInvented DEF Failing, Episode
      <3>8. QED
        BY <3>1, <3>2, <3>3, <3>4, <3>5, <3>6, <3>7 DEF PrefixKinds
    <2>6. QED
      BY <2>5 DEF I
  <1>2. Inv /\ Talk => PrefixVerdictsStand
    BY <1>1 DEF PrefixVerdictsStand
  <1>3. QED
    BY <1>2, TalkInductive, PTL
=============================================================================
