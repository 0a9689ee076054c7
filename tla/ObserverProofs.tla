--------------------------- MODULE ObserverProofs ---------------------------
(***************************************************************************)
(* Proofs, for every value of the constants, of the two safety promises of *)
(* OutboundObserver.  Both rest on PollInv, which says of a poll in flight *)
(* what NothingPassedOver says of the cursor it will write.                *)
(***************************************************************************)
EXTENDS OutboundObserver, TLAPS

\* The clocks of mail: a message is dated when it was sent, and an own send is
\* recorded within its timeout.
MailInv ==
    /\ \A m \in Msg : IF author[m] = "none" THEN sentAt[m] = Never ELSE sentAt[m] \in Start .. now
    /\ \A m \in Msg : recordedAt[m] # Never =>
          author[m] = "daemon" /\ recordedAt[m] - sentAt[m] \in 0 .. SendTimeout

\* A message the observer is done with, or will never see as a reply.
Handled(m) == m \in log \cup passed \/ DaemonSendNear(on[m], sentAt[m])

Polling == pc \in {"page", "retiring", "logging"}

\* A reply after the poll's cursor that is neither done nor in the page was sent
\* after everything the poll has seen.
Later(m) == sentAt[m] > newest /\ \A k \in page : sentAt[m] > sentAt[k]

PollInv ==
    /\ known \subseteq Recorded
    /\ cursor <= floor \/ cursor < now
    /\ IF pc \in {"retiring", "logging"} THEN current \in Msg ELSE current = NoMsg
    /\ pc = "fetching" => newest = since
    /\ pc = "fetching" \/ Polling => first \/ since = cursor
    /\ Polling =>
          /\ newest = since \/ newest < now
          /\ newest >= since
          /\ \A m \in page : author[m] # "none" /\ sentAt[m] < now
          /\ \A m \in Msg \ undated :
                author[m] = "owner" /\ sentAt[m] > since /\ ~Handled(m)
                /\ m \notin page /\ m # current => Later(m)

ObserverInv == TypeOK /\ MailInv /\ PollInv /\ NothingPassedOver

\* The larger of two numbers.
LEMMA MaxOfTwo ==
  ASSUME NEW a \in Int, NEW b \in Int
  PROVE  /\ Max({a, b}) \in {a, b}
         /\ Max({a, b}) >= a /\ Max({a, b}) >= b
<1>1. \E x \in {a, b} : \A y \in {a, b} : x >= y
  <2>1. CASE a >= b
    BY <2>1
  <2>2. CASE b >= a
    BY <2>2
  <2> QED  BY <2>1, <2>2
<1>2. Max({a, b}) \in {a, b} /\ \A y \in {a, b} : Max({a, b}) >= y
  BY <1>1 DEF Max
<1> QED  BY <1>2

\* The same of two cursors.
LEMMA MaxOfCursors ==
  ASSUME NEW a \in Cursors \cup {Never}, NEW b \in Cursors \cup {Never}
  PROVE  /\ Max({a, b}) \in Cursors \cup {Never}
         /\ Max({a, b}) \in {a, b}
         /\ Max({a, b}) >= a /\ Max({a, b}) >= b
<1>1. a \in Int /\ b \in Int
  BY ObserverAssumption DEF Cursors, Never
<1> QED  BY <1>1, MaxOfTwo

\* Initially nothing was sent and no poll runs.
LEMMA InitInv == Init => ObserverInv
<1> SUFFICES ASSUME Init PROVE ObserverInv
  OBVIOUS
<1>1. TypeOK
  <2>1. now \in Time
    BY ObserverAssumption DEF Init, Time
  <2>2. first \in BOOLEAN /\ {} \subseteq Msg /\ {} \subseteq Thread
    BY DEF Init
  <2> QED  BY <2>1, <2>2 DEF Init, TypeOK
<1>2. MailInv /\ NothingPassedOver
  BY DEF Init, MailInv, NothingPassedOver, Never
<1>3. PollInv
  BY DEF Init, PollInv, Never, Polling, Recorded
<1> QED  BY <1>1, <1>2, <1>3 DEF ObserverInv

-----------------------------------------------------------------------------
(* Types.                                                                  *)

\* Every step keeps the types.
LEMMA TypeStep == TypeOK /\ PollInv /\ [Next]_vars => TypeOK'
<1> SUFFICES ASSUME TypeOK, PollInv, [Next]_vars PROVE TypeOK'
  OBVIOUS
<1> USE ObserverAssumption
    DEF TypeOK, Time, Cursors, Never, vars, mailVars, cardVars, pollVars
<1>1. ASSUME NEW m \in Msg, NEW who \in {"owner", "daemon"}, Send(m, who) PROVE TypeOK'
  BY <1>1 DEF Send
<1>2. ASSUME NEW m \in Msg, SendConfirmed(m) PROVE TypeOK'
  BY <1>2 DEF SendConfirmed
<1>3. ASSUME NEW c \in Card, CardStep(c) PROVE TypeOK'
  BY <1>3 DEF CardStep, StartDraft, RaiseCard, Hold, BackToQueue
<1>4. CASE LoadSelfSent
  BY <1>4 DEF LoadSelfSent, Recorded
<1>5. CASE SeedCursor
  <2>1. since' \in Cursors
    BY <1>5 DEF SeedCursor
  <2>2. first' \in BOOLEAN
    BY <1>5 DEF SeedCursor
  <2>3. pc' = "fetching" /\ newest' = since'
    BY <1>5 DEF SeedCursor
  <2> QED  BY <1>5, <2>1, <2>2, <2>3 DEF SeedCursor
<1>6. CASE FetchNothing
  BY <1>6 DEF FetchNothing, PollEnds
<1>7. CASE Fetch
  BY <1>7 DEF Fetch, Shown
<1>8. CASE RetireThread
  BY <1>8 DEF RetireThread, SupersedeThread
<1>9. CASE LogReply
  BY <1>9 DEF LogReply, PollInv
<1>10. CASE PersistCursor
  <2>1. cursor' \in Cursors \cup {Never} /\ floor' \in Cursors \cup {Never}
    <3> HIDE DEF Cursors, Never
    <3>1. Max({cursor, newest}) \in Cursors \cup {Never}
      BY MaxOfCursors
    <3>2. Max({floor, since}) \in Cursors \cup {Never}
      BY MaxOfCursors
    <3> QED  BY <1>10, <3>1, <3>2 DEF PersistCursor
  <2> QED  BY <1>10, <2>1 DEF PersistCursor, PollEnds
<1>11. ASSUME NEW m \in Msg, SkipKnown(m) \/ LookupFails(m) PROVE TypeOK'
  BY <1>11 DEF SkipKnown, LookupFails
<1>12. ASSUME NEW m \in Msg, SkipSeen(m) \/ Emit(m) PROVE TypeOK'
  <2>1. DateOf(m) \in Cursors \cup {Never} /\ newest \in Cursors \cup {Never}
    BY DEF DateOf
  <2>2. Max({newest, DateOf(m)}) \in Cursors \cup {Never}
    BY <2>1, MaxOfCursors
  <2> QED  BY <1>12, <2>2 DEF SkipSeen, Emit
<1>13. CASE ReconcileStep
  BY <1>13 DEF ReconcileStep, ReconcileList, ReconcileThread, SupersedeThread
<1>14. CASE Crash
  BY <1>14 DEF Crash, PollEnds
<1>15. CASE Tick
  BY <1>15 DEF Tick
<1>16. CASE UNCHANGED vars
  BY <1>16
<1> QED
  BY <1>1, <1>2, <1>3, <1>4, <1>5, <1>6, <1>7, <1>8, <1>9, <1>10, <1>11, <1>12, <1>13, <1>14,
     <1>15, <1>16 DEF Next, PollStep

-----------------------------------------------------------------------------
(* Mail: what was sent, recorded or dealt with stays so.                   *)

Grows ==
    /\ now' \in {now, now + 1} /\ on' = on /\ log \subseteq log' /\ passed \subseteq passed'
    /\ \A m \in Msg : recordedAt[m] # Never => recordedAt'[m] = recordedAt[m]
    /\ \A m \in Msg : author[m] # "none" =>
          author'[m] = author[m] /\ sentAt'[m] = sentAt[m] /\ (m \in undated' => m \in undated)
    /\ \A m \in Msg : author[m] # "none" => (m \in undated => m \in undated')
    /\ \A m \in Msg : author[m] = "none" => author'[m] = "none" \/ sentAt'[m] = now

\* Every step only adds to the mail.
LEMMA StepGrows == TypeOK /\ [Next]_vars => Grows
<1> SUFFICES ASSUME TypeOK, [Next]_vars PROVE Grows
  OBVIOUS
<1> USE ObserverAssumption
    DEF TypeOK, Time, Grows, vars, mailVars, cardVars, pollVars
<1>1. ASSUME NEW m \in Msg, NEW who \in {"owner", "daemon"}, Send(m, who) PROVE Grows
  BY <1>1 DEF Send
<1>2. ASSUME NEW m \in Msg, SendConfirmed(m) PROVE Grows
  BY <1>2 DEF SendConfirmed
<1>3. ASSUME NEW c \in Card, CardStep(c) PROVE Grows
  BY <1>3 DEF CardStep, StartDraft, RaiseCard, Hold, BackToQueue
<1>4. CASE PollStep
  <2>1. CASE LoadSelfSent \/ SeedCursor \/ FetchNothing \/ Fetch \/ RetireThread
    BY <2>1 DEF LoadSelfSent, SeedCursor, FetchNothing, Fetch, RetireThread
  <2>2. CASE LogReply \/ PersistCursor
    BY <2>2 DEF LogReply, PersistCursor
  <2>3. ASSUME NEW m \in Msg, SkipKnown(m) \/ LookupFails(m) \/ SkipSeen(m) \/ Emit(m)
        PROVE  Grows
    BY <2>3 DEF SkipKnown, LookupFails, SkipSeen, Emit
  <2> QED  BY <1>4, <2>1, <2>2, <2>3 DEF PollStep
<1>5. CASE ReconcileStep \/ Crash
  BY <1>5 DEF ReconcileStep, ReconcileList, ReconcileThread, Crash
<1>6. CASE Tick \/ UNCHANGED vars
  BY <1>6 DEF Tick
<1> QED  BY <1>1, <1>2, <1>3, <1>4, <1>5, <1>6 DEF Next

\* A message that is dealt with stays dealt with.
LEMMA HandledGrows ==
  ASSUME TypeOK, Grows, NEW m \in Msg, author[m] # "none", Handled(m)
  PROVE  Handled(m)'
<1>1. CASE m \in log \cup passed
  BY <1>1 DEF Handled, Grows
<1>2. CASE DaemonSendNear(on[m], sentAt[m])
  <2>1. PICK k \in Recorded :
           on[k] = on[m] /\ recordedAt[k] - sentAt[m] \in (-Proximity) .. Proximity
    BY <1>2 DEF DaemonSendNear
  <2>2. k \in Msg /\ recordedAt'[k] = recordedAt[k] /\ recordedAt'[k] # Never
    BY <2>1 DEF Recorded, Grows
  <2>3. on' = on /\ sentAt'[m] = sentAt[m]
    BY DEF Grows
  <2> QED  BY <2>1, <2>2, <2>3 DEF Handled, DaemonSendNear, Recorded
<1> QED  BY <1>1, <1>2 DEF Handled

\* Every step keeps the dates of the mail.
LEMMA MailStep == TypeOK /\ MailInv /\ [Next]_vars => MailInv'
<1> SUFFICES ASSUME TypeOK, MailInv, [Next]_vars PROVE MailInv'
  OBVIOUS
<1> USE ObserverAssumption
    DEF TypeOK, MailInv, Time, Never, vars, mailVars, cardVars, pollVars
<1>1. ASSUME NEW m \in Msg, NEW who \in {"owner", "daemon"}, Send(m, who) PROVE MailInv'
  BY <1>1 DEF Send
<1>2. ASSUME NEW m \in Msg, SendConfirmed(m) PROVE MailInv'
  BY <1>2 DEF SendConfirmed
<1>3. ASSUME UNCHANGED <<mailVars>>, now' = now \/ now' = now + 1 PROVE MailInv'
  BY <1>3
<1>4. ASSUME NEW c \in Card, CardStep(c) PROVE MailInv'
  BY <1>3, <1>4 DEF CardStep, StartDraft, RaiseCard, Hold, BackToQueue
<1>5. CASE PollStep
  BY <1>3, <1>5
     DEF PollStep, LoadSelfSent, SeedCursor, FetchNothing, Fetch, RetireThread, LogReply,
         PersistCursor, SkipKnown, LookupFails, SkipSeen, Emit
<1>6. CASE ReconcileStep \/ Crash \/ Tick \/ UNCHANGED vars
  BY <1>3, <1>6 DEF ReconcileStep, ReconcileList, ReconcileThread, Crash, Tick
<1> QED  BY <1>1, <1>2, <1>4, <1>5, <1>6 DEF Next

-----------------------------------------------------------------------------
(* Steps that leave the poll alone.                                        *)

\* As long as the cursor rests, nothing new is passed over.
LEMMA CursorRests ==
  ASSUME ObserverInv, Grows, UNCHANGED <<cursor, floor>>
  PROVE  NothingPassedOver'
<1> USE ObserverAssumption DEF ObserverInv
<1> SUFFICES ASSUME NEW m \in Msg \ undated', author'[m] = "owner",
                    sentAt'[m] \in (floor + 1) .. cursor
             PROVE  Handled(m)'
  BY DEF NothingPassedOver, Handled
<1>1. author[m] # "none"
  BY DEF Grows, PollInv, TypeOK, Cursors, Time, Never
<1>2. m \notin undated /\ author[m] = "owner" /\ sentAt'[m] = sentAt[m]
  BY <1>1 DEF Grows
<1>3. Handled(m)
  BY <1>2 DEF NothingPassedOver, Handled
<1> QED  BY <1>1, <1>3, HandledGrows

\* Mail, cards, the sweep and time keep what the poll says.
LEMMA PollUntouched ==
  ASSUME ObserverInv, Grows, UNCHANGED <<cursor, floor, pollVars>>
  PROVE  PollInv'
<1> USE ObserverAssumption DEF ObserverInv
<1>1. \A m \in Msg : author[m] = "none" /\ author'[m] # "none" => sentAt'[m] = now
  BY DEF Grows
<1>2. now \in Int /\ now' \in Int /\ now' >= now /\ Never = 0
  BY DEF TypeOK, Time, Grows, Never
<1>3. ASSUME Polling, NEW m \in Msg \ undated', author'[m] = "owner", sentAt'[m] > since,
             ~Handled(m)', m \notin page, m # current
      PROVE  sentAt'[m] > newest /\ \A k \in page : sentAt'[m] > sentAt'[k]
  <2>1. CASE author[m] = "none"
    <3>1. sentAt'[m] = now
      BY <1>1, <1>3, <2>1
    <3>2. \A k \in page : author[k] # "none" /\ sentAt[k] < now /\ sentAt'[k] = sentAt[k]
      BY <1>3 DEF PollInv, TypeOK, Grows
    <3> QED  BY <1>3, <3>1, <3>2 DEF PollInv, TypeOK, Cursors, Time, Never
  <2>2. CASE author[m] # "none"
    <3>1. m \notin undated /\ author[m] = "owner" /\ sentAt'[m] = sentAt[m]
      BY <1>3, <2>2 DEF Grows
    <3>2. ~Handled(m)
      BY <1>3, <2>2, HandledGrows
    <3>3. Later(m)
      BY <1>3, <3>1, <3>2 DEF PollInv
    <3>4. \A k \in page : sentAt'[k] = sentAt[k]
      BY <1>3 DEF PollInv, TypeOK, Grows
    <3> QED  BY <3>1, <3>3, <3>4 DEF Later
  <2> QED  BY <2>1, <2>2
<1>4. PollInv'
  <2>1. known' \subseteq Recorded'
    BY DEF PollInv, pollVars, Recorded, Grows
  <2>2. cursor' <= floor' \/ cursor' < now'
    BY <1>2 DEF PollInv, pollVars, TypeOK, Cursors, Never
  <2>3. /\ IF pc' \in {"retiring", "logging"} THEN current' \in Msg ELSE current' = NoMsg
        /\ pc' = "fetching" => newest' = since'
        /\ pc' = "fetching" \/ Polling' => first' \/ since' = cursor'
    BY DEF PollInv, pollVars, Polling
  <2>4. ASSUME Polling PROVE newest' = since' \/ newest' < now'
    BY <2>4, <1>2 DEF PollInv, pollVars, TypeOK, Cursors, Never
  <2>5. ASSUME Polling PROVE \A m \in page' : author'[m] # "none" /\ sentAt'[m] < now'
    BY <2>5, <1>2 DEF PollInv, pollVars, TypeOK, Time, Never, Grows
  <2> QED  BY <1>3, <2>1, <2>2, <2>3, <2>4, <2>5 DEF PollInv, pollVars, Polling, Later
<1> QED  BY <1>4

-----------------------------------------------------------------------------
(* Steps of the poll.                                                      *)

\* A poll that starts, ends or dies has no page to answer for.
LEMMA OffPage ==
  ASSUME ObserverInv, LoadSelfSent \/ SeedCursor \/ FetchNothing \/ Crash
  PROVE  PollInv'
<1> USE ObserverAssumption DEF ObserverInv, PollInv, TypeOK, Polling
<1>1. CASE LoadSelfSent
  BY <1>1 DEF LoadSelfSent, mailVars, Recorded
<1>2. CASE SeedCursor
  BY <1>2 DEF SeedCursor, mailVars, Recorded
<1>3. CASE FetchNothing \/ Crash
  BY <1>3 DEF FetchNothing, Crash, PollEnds, mailVars, Recorded
<1> QED  BY <1>1, <1>2, <1>3

\* What the page does not show was sent after it was taken.
LEMMA FetchKeepsPoll == ASSUME ObserverInv, Fetch PROVE PollInv'
<1> USE ObserverAssumption DEF ObserverInv, TypeOK, Time, Cursors, Never
<1>1. /\ pc' = "page" /\ page' = Shown /\ since \in Int /\ newest = since /\ (first \/ since = cursor)
      /\ UNCHANGED <<now, author, on, sentAt, undated, recordedAt, log, passed, cursor, floor,
                     known, since, newest, current, first>>
  BY DEF Fetch, PollInv, mailVars
<1>2. current' = NoMsg
  BY DEF Fetch, PollInv
<1>3. \A m \in page' : author'[m] # "none" /\ sentAt'[m] < now'
  BY <1>1 DEF Shown
<1>4. ASSUME NEW m \in Msg \ undated', author'[m] = "owner", sentAt'[m] > since', m \notin page'
      PROVE  sentAt'[m] > newest' /\ \A k \in page' : sentAt'[m] > sentAt'[k]
  <2>1. sentAt[m] + Slack > since /\ author[m] # "none"
    BY <1>1, <1>4
  <2>2. ~ sentAt[m] < now
    BY <1>1, <1>4, <2>1 DEF Shown
  <2> QED  BY <1>1, <1>4, <2>2 DEF Shown
<1>5. known' \subseteq Recorded' /\ (cursor' <= floor' \/ cursor' < now')
  BY <1>1 DEF PollInv, Recorded
<1>6. newest' = since' /\ newest' >= since' /\ (first' \/ since' = cursor')
  BY <1>1
<1> QED  BY <1>1, <1>2, <1>3, <1>4, <1>5, <1>6 DEF PollInv, Polling, Later

\* A message leaves the page when it is known, passed over, seen or emitted, and
\* the newest date seen grows at most to its own.
LEMMA PageShrinks ==
  ASSUME ObserverInv, Grows, NEW k \in Msg,
         SkipKnown(k) \/ LookupFails(k) \/ SkipSeen(k) \/ Emit(k)
  PROVE  PollInv'
<1> USE ObserverAssumption DEF ObserverInv
<1>1. /\ pc = "page" /\ k \in page /\ page' = page \ {k} /\ current = NoMsg
      /\ UNCHANGED <<now, author, on, sentAt, undated, recordedAt, log, cursor, floor, known,
                     since, first>>
  BY DEF SkipKnown, LookupFails, SkipSeen, Emit, mailVars, PollInv
<1>2. \/ newest' = newest
      \/ newest' = DateOf(k) /\ newest' > newest /\ newest' = sentAt[k]
  <2>1. newest \in Cursors \cup {Never} /\ DateOf(k) \in Cursors \cup {Never}
    BY DEF TypeOK, DateOf, Time, Cursors, Never
  <2>2. Max({newest, DateOf(k)}) \in {newest, DateOf(k)} /\ Max({newest, DateOf(k)}) >= newest
    BY <2>1, MaxOfCursors
  <2>3. newest >= since /\ (newest = since \/ newest < now)
    BY <1>1 DEF PollInv, Polling
  <2>4. newest \in Int /\ DateOf(k) \in Int /\ newest >= 0
    BY <2>1 DEF Cursors, Never
  <2>5. newest' = newest \/ newest' = Max({newest, DateOf(k)})
    BY DEF SkipKnown, LookupFails, SkipSeen, Emit
  <2> QED  BY <2>2, <2>4, <2>5 DEF DateOf, Never
<1>3. pc' \in {"page", "retiring"} /\ (IF pc' = "retiring" THEN current' = k ELSE current' = NoMsg)
  BY <1>1 DEF SkipKnown, LookupFails, SkipSeen, Emit
<1>4. author[k] = "owner" /\ k \notin undated /\ sentAt[k] > since /\ current' # k => Handled(k)'
  <2>1. CASE SkipKnown(k)
    BY <2>1 DEF SkipKnown, PollInv, MailInv, Recorded
  <2>2. CASE LookupFails(k)
    BY <2>2 DEF LookupFails, Handled
  <2>3. CASE SkipSeen(k)
    <3>1. ASSUME author[k] = "owner", k \notin undated, sentAt[k] > since PROVE Handled(k)
      <4>1. DateOf(k) = sentAt[k] /\ sentAt[k] \in Int /\ since \in Int
        BY <3>1 DEF DateOf, TypeOK, Time, Cursors, Never
      <4>2. ~ DateOf(k) <= since
        BY <3>1, <4>1
      <4> QED  BY <2>3, <4>1, <4>2 DEF SkipSeen, Handled
    <3> QED  BY <3>1, HandledGrows
  <2>4. CASE Emit(k)
    BY <2>4 DEF Emit
  <2> QED  BY <2>1, <2>2, <2>3, <2>4
<1>5. ASSUME NEW m \in Msg \ undated', author'[m] = "owner", sentAt'[m] > since', ~Handled(m)',
             m \notin page', m # current'
      PROVE  sentAt'[m] > newest' /\ \A j \in page' : sentAt'[m] > sentAt'[j]
  <2>1. m # k
    BY <1>1, <1>4, <1>5
  <2>2. ~Handled(m)
    BY <1>1, <1>5, HandledGrows
  <2>3. m \notin page /\ m # NoMsg
    BY <1>1, <1>5, <2>1
  <2>4. Later(m)
    BY <1>1, <1>5, <2>2, <2>3 DEF PollInv, Polling
  <2> QED  BY <1>1, <1>2, <2>4 DEF Later
<1>6. newest' = since' \/ newest' < now'
  BY <1>1, <1>2 DEF PollInv, Polling
<1>7. newest' >= since'
  BY <1>1, <1>2 DEF PollInv, Polling, TypeOK, Cursors, Never, Time
<1>8. known' \subseteq Recorded' /\ (cursor' <= floor' \/ cursor' < now')
  BY <1>1 DEF PollInv, Recorded
<1>9. \A m \in page' : author'[m] # "none" /\ sentAt'[m] < now'
  BY <1>1 DEF PollInv, Polling
<1>10. first' \/ since' = cursor'
  BY <1>1 DEF PollInv, Polling
<1> QED  BY <1>1, <1>3, <1>5, <1>6, <1>7, <1>8, <1>9, <1>10 DEF PollInv, Polling, Later

\* Retiring the thread and logging the reply deal with the current message.
LEMMA CurrentIsDone ==
  ASSUME ObserverInv, Grows, RetireThread \/ LogReply
  PROVE  PollInv'
<1> USE ObserverAssumption DEF ObserverInv
<1>1. /\ pc \in {"retiring", "logging"} /\ current \in Msg
      /\ UNCHANGED <<now, author, on, sentAt, undated, recordedAt, cursor, floor, known, since,
                     newest, page, first>>
  BY DEF RetireThread, LogReply, mailVars, PollInv
<1>2. \/ pc' = "logging" /\ current' = current
      \/ pc' = "page" /\ current' = NoMsg /\ \A m \in Msg : m = current => Handled(m)'
  BY <1>1 DEF RetireThread, LogReply, Handled
<1>3. ASSUME NEW m \in Msg \ undated', author'[m] = "owner", sentAt'[m] > since', ~Handled(m)',
             m \notin page', m # current'
      PROVE  Later(m)
  <2>1. m # current
    BY <1>2, <1>3
  <2>2. ~Handled(m)
    BY <1>1, <1>3, HandledGrows
  <2> QED  BY <1>1, <1>3, <2>1, <2>2 DEF PollInv, Polling
<1> QED  BY <1>1, <1>2, <1>3 DEF PollInv, Polling, Recorded, Later

\* The cursor is written when the page is empty: what lies up to the newest date
\* has been dealt with, and what lies up to the old cursor had been before.
LEMMA PersistKeepsInv ==
  ASSUME ObserverInv, Grows, PersistCursor
  PROVE  PollInv' /\ NothingPassedOver'
<1> USE ObserverAssumption DEF ObserverInv
<1>1. /\ pc = "page" /\ page = {} /\ current = NoMsg /\ NoMsg \notin Msg
      /\ pc' = "idle" /\ current' = NoMsg /\ known' = {}
      /\ UNCHANGED <<now, author, on, sentAt, undated, recordedAt, log, passed>>
  BY DEF PersistCursor, PollEnds, mailVars, PollInv
<1>2. cursor \in Int /\ newest \in Int /\ since \in Int /\ floor \in Int /\ now \in Int
  BY DEF TypeOK, Cursors, Never, Time
<1>3. Max({cursor, newest}) \in {cursor, newest} /\ Max({cursor, newest}) >= cursor
  BY <1>2, MaxOfTwo
<1>4. Max({floor, since}) \in {floor, since} /\ Max({floor, since}) >= floor
      /\ Max({floor, since}) >= since
  BY <1>2, MaxOfTwo
<1>5. CASE UNCHANGED <<cursor, floor>>
  BY <1>1, <1>5, CursorRests DEF PollInv, Polling, Recorded
<1>6. CASE /\ cursor' \in {cursor, newest} /\ floor' >= floor /\ floor' \in Int
           /\ first => floor' >= since
  <2>1. newest = since \/ newest < now
    BY <1>1 DEF PollInv, Polling
  <2>2. first \/ since = cursor
    BY <1>1 DEF PollInv, Polling
  <2>3. cursor <= floor \/ cursor < now
    BY DEF PollInv
  <2>4. cursor' <= floor' \/ cursor' < now'
    BY <1>1, <1>2, <1>6, <2>1, <2>2, <2>3
  <2>5. PollInv'
    BY <1>1, <2>4 DEF PollInv, Polling, Recorded
  <2>6. NothingPassedOver'
    <3> SUFFICES ASSUME NEW m \in Msg \ undated, author[m] = "owner",
                        sentAt[m] > floor', sentAt[m] <= cursor', ~Handled(m)
                 PROVE  FALSE
      BY <1>1, <1>2, <1>6 DEF NothingPassedOver, Handled, TypeOK, Time, Never, DaemonSendNear, Recorded
    <3>1. sentAt[m] \in Int
      BY DEF TypeOK, Time, Never
    <3>2. ~ sentAt[m] <= cursor
      BY <1>2, <1>6, <3>1 DEF NothingPassedOver, Handled
    <3>3. sentAt[m] <= newest /\ cursor' = newest
      BY <1>6, <3>2
    <3>4. sentAt[m] > since
      BY <1>2, <1>6, <2>2, <3>1, <3>2
    <3>5. Later(m)
      BY <1>1, <3>4 DEF PollInv, Polling
    <3> QED  BY <1>2, <3>1, <3>3, <3>5 DEF Later
  <2> QED  BY <2>5, <2>6
<1> QED  BY <1>2, <1>3, <1>4, <1>5, <1>6 DEF PersistCursor

-----------------------------------------------------------------------------
(* The theorems.                                                           *)

\* Every step keeps the invariant.
LEMMA StepInv == ObserverInv /\ [Next]_vars => ObserverInv'
<1> SUFFICES ASSUME ObserverInv, [Next]_vars PROVE ObserverInv'
  OBVIOUS
<1>1. TypeOK' /\ MailInv' /\ Grows
  BY TypeStep, MailStep, StepGrows DEF ObserverInv
<1> SUFFICES PollInv' /\ NothingPassedOver'
  BY <1>1 DEF ObserverInv
<1>2. CASE UNCHANGED <<cursor, floor, pollVars>>
  BY <1>1, <1>2, PollUntouched, CursorRests
<1>3. CASE LoadSelfSent \/ SeedCursor \/ FetchNothing \/ Crash
  <2>1. UNCHANGED <<cursor, floor>>
    BY <1>3 DEF LoadSelfSent, SeedCursor, FetchNothing, Crash
  <2> QED  BY <1>1, <1>3, <2>1, OffPage, CursorRests
<1>4. CASE Fetch
  <2>1. UNCHANGED <<cursor, floor>>
    BY <1>4 DEF Fetch
  <2> QED  BY <1>1, <1>4, <2>1, FetchKeepsPoll, CursorRests
<1>5. ASSUME NEW k \in Msg, SkipKnown(k) \/ LookupFails(k) \/ SkipSeen(k) \/ Emit(k)
      PROVE  PollInv' /\ NothingPassedOver'
  <2>1. UNCHANGED <<cursor, floor>>
    BY <1>5 DEF SkipKnown, LookupFails, SkipSeen, Emit
  <2> QED  BY <1>1, <1>5, <2>1, PageShrinks, CursorRests
<1>6. CASE RetireThread \/ LogReply
  <2>1. UNCHANGED <<cursor, floor>>
    BY <1>6 DEF RetireThread, LogReply
  <2> QED  BY <1>1, <1>6, <2>1, CurrentIsDone, CursorRests
<1>7. CASE PersistCursor
  BY <1>1, <1>7, PersistKeepsInv
<1>8. ASSUME NEW m \in Msg, Send(m, "owner") \/ Send(m, "daemon") \/ SendConfirmed(m)
      PROVE  UNCHANGED <<cursor, floor, pollVars>>
  BY <1>8 DEF Send, SendConfirmed
<1>9. ASSUME NEW c \in Card, CardStep(c) PROVE UNCHANGED <<cursor, floor, pollVars>>
  BY <1>9 DEF CardStep, StartDraft, RaiseCard, Hold, BackToQueue
<1>10. ASSUME ReconcileStep \/ Tick \/ UNCHANGED vars PROVE UNCHANGED <<cursor, floor, pollVars>>
  BY <1>10 DEF ReconcileStep, ReconcileList, ReconcileThread, Tick, vars
<1> QED
  BY <1>2, <1>3, <1>4, <1>5, <1>6, <1>7, <1>8, <1>9, <1>10 DEF Next, PollStep

\* The invariant holds throughout.
THEOREM PollInvariant == Spec => []ObserverInv
  BY InitInv, StepInv, PTL DEF Spec

\* Every reachable state of the observer is well typed.
THEOREM ObserverTypes == Spec => []TypeOK
<1>1. ObserverInv => TypeOK
  BY DEF ObserverInv
<1> QED  BY <1>1, PollInvariant, PTL

\* The cursor never passes over a dated reply of the owner that no statement
\* lost, whatever fails or dies in between, for any page and any clock.
THEOREM CursorIsHonest == Spec => []NothingPassedOver
<1>1. ObserverInv => NothingPassedOver
  BY DEF ObserverInv
<1> QED  BY <1>1, PollInvariant, PTL

\* No recorded own send is emitted as a manual reply: its record is within the
\* send timeout of its date, hence within the proximity window.
THEOREM OwnSendsAreKnown == Spec => RecordedSendIsRecognised
<1>1. ASSUME ObserverInv, [Next]_vars
      PROVE  [\A m \in Msg \ undated :
                recordedAt[m] # Never /\ current' = m => current = m]_vars
  <2> SUFFICES ASSUME NEW m \in Msg \ undated, recordedAt[m] # Never, current' = m, current # m
               PROVE  FALSE
    OBVIOUS
  <2>1. Emit(m)
    <3> USE ObserverAssumption DEF ObserverInv, vars, pollVars
    <3>1. current' # NoMsg
      OBVIOUS
    <3>2. ~(UNCHANGED current)
      OBVIOUS
    <3>3. \E k \in Msg : Emit(k)
      <4>1. ASSUME NEW k \in Msg, Send(k, "owner") \/ Send(k, "daemon") \/ SendConfirmed(k)
            PROVE  FALSE
        BY <3>2, <4>1 DEF Send, SendConfirmed
      <4>2. ASSUME NEW c \in Card, CardStep(c) PROVE FALSE
        BY <3>2, <4>2 DEF CardStep, StartDraft, RaiseCard, Hold, BackToQueue
      <4>3. CASE ReconcileStep \/ Crash \/ Tick \/ UNCHANGED vars
        BY <3>1, <3>2, <4>3 DEF ReconcileStep, ReconcileList, ReconcileThread, Crash, PollEnds, Tick
      <4>4. CASE PollStep
        BY <3>1, <3>2, <4>4
           DEF PollStep, LoadSelfSent, SeedCursor, FetchNothing, PollEnds, Fetch, RetireThread,
               LogReply, PersistCursor, SkipKnown, LookupFails, SkipSeen
      <4> QED  BY <1>1, <4>1, <4>2, <4>3, <4>4 DEF Next
    <3> QED  BY <3>3 DEF Emit
  <2>2. ~DaemonSendNear(on[m], sentAt[m])
    BY <2>1 DEF Emit, DateOf
  <2>3. recordedAt[m] - sentAt[m] \in 0 .. SendTimeout
    BY <1>1 DEF ObserverInv, MailInv
  <2>4. recordedAt[m] - sentAt[m] \in (-Proximity) .. Proximity
    BY <2>3, ObserverAssumption
  <2> QED  BY <2>2, <2>4 DEF DaemonSendNear, Recorded
<1> QED  BY <1>1, PollInvariant, PTL DEF Spec, RecordedSendIsRecognised

=============================================================================
