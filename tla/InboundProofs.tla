---------------------------- MODULE InboundProofs ----------------------------
(***************************************************************************)
(* Proofs about the ways into the daemon: the journal poller, the direct   *)
(* messages, and the intake of mail.                                       *)
(***************************************************************************)
EXTENDS MCInbound, FiniteSetTheorems, TLAPS

-----------------------------------------------------------------------------
(* The journal: what a page, a pass and a watermark promise, of entries as *)
(* they are (cur), when they changed (at) and which are dealt with (done). *)

Stamp == Instant \cup {Never}

PassRow ==
    [step : {"rest", "screen", "fetch", "page", "decrypt", "complete", "clear"},
     resumed : BOOLEAN, since : Stamp, started : Stamp,
     token : 1 .. Pages + 1, ahead : Seq(Sheet), on : 1 .. Pages, items : SUBSET Version,
     spent : BOOLEAN, budget : 0 .. PerPoll, fetched : 0 .. PagesPerPoll,
     held : Version \cup {Nothing}]

(* Everything that changed before w is dealt with.                         *)
Honest(w, cur, at, done) == \A i \in cur : at[i[1]] < w => i \in done

(* So is what is filed on the pages up to this one.                        *)
Through(page, t, cur, at, done) ==
    \A i \in cur : PageOf[i[1]] <= page /\ at[i[1]] < t => i \in done

(* A page holds all that a pass of these instants has to find on it.       *)
Full(sheet, since, t, cur, at) ==
    \A i \in cur : PageOf[i[1]] = sheet.token /\ since <= at[i[1]] /\ at[i[1]] < t
                       => i \in sheet.items

(* What is left of a page, and what was, is all that is filed on it.       *)
Left(page, items, t, cur, at, done) ==
    \A i \in cur : PageOf[i[1]] = page /\ at[i[1]] < t => i \in done \cup items

(* A poll has dealt with the pages before the one it is at.                *)
Sound(q, n, cur, at, done) ==
    /\ q.since <= n /\ q.started <= n
    /\ q.started = Never => q.ahead = <<>> /\ q.token = 1
    /\ Len(q.ahead) < q.token
    /\ \A j \in 1 .. Len(q.ahead) :
          /\ q.ahead[j].token = q.token - Len(q.ahead) + j - 1
          /\ Full(q.ahead[j], q.since, q.started, cur, at)
    /\ Honest(q.since, cur, at, done)
    /\ q.step \in {"screen", "fetch"} =>
          Through(q.token - Len(q.ahead) - 1, q.started, cur, at, done)
    /\ q.step = "screen" => q.token <= Pages /\ q.fetched < PagesPerPoll
    /\ q.step = "fetch" /\ q.ahead = <<>> => q.token <= Pages
    /\ q.step \in {"page", "decrypt"} =>
          /\ q.started # Never
          /\ q.on = q.token - Len(q.ahead) - 1
          /\ Through(q.on - 1, q.started, cur, at, done)
          /\ ~q.spent => Left(q.on, q.items, q.started, cur, at, done)
    /\ q.step = "clear" => q.started # Never

(* The same of a pass that waits to be taken up again.                     *)
Kept(c, n, cur, at, done) ==
    /\ c.since <= n /\ c.started <= n
    /\ Honest(c.since, cur, at, done)
    /\ Through(c.token - 1, c.started, cur, at, done)

Settled == ingested \cup waived

JournalInv ==
    /\ DaemonTypes /\ JournalTypes
    /\ watermark <= now
    /\ Honest(watermark, Current, changedAt, Settled)
    /\ cursor # NoCursor => Kept(cursor, now, Current, changedAt, Settled)
    /\ \A p \in Poller : Sound(pass[p], now, Current, changedAt, Settled)

(* Entries only change now, and what is dealt with stays so.               *)
Onward(n, cur, at, done, cur2, at2, done2) ==
    /\ done \subseteq done2
    /\ \A i \in cur2 : \/ i \in cur /\ at2[i[1]] = at[i[1]]
                       \/ at2[i[1]] >= n

(* The entries there are, and the instants they changed at.                *)
Dated(cur, at) == \A i \in cur : i[1] \in Entry /\ at[i[1]] \in Int

(* What held of the past still holds.                                      *)
LEMMA HonestStays ==
  ASSUME NEW n \in Int, NEW w \in Int, w <= n,
         NEW cur, NEW at, NEW done, NEW cur2, NEW at2, NEW done2,
         Onward(n, cur, at, done, cur2, at2, done2), Dated(cur2, at2),
         Honest(w, cur, at, done)
  PROVE  Honest(w, cur2, at2, done2)
  BY DEF Onward, Honest, Dated

\* What is dealt with up to a page stays so while entries are written and
\* synced: whatever changes then is younger than t.
LEMMA ThroughStays ==
  ASSUME NEW n \in Int, NEW t \in Int, t <= n, NEW page \in Int,
         NEW cur, NEW at, NEW done, NEW cur2, NEW at2, NEW done2,
         Onward(n, cur, at, done, cur2, at2, done2), Dated(cur2, at2),
         Through(page, t, cur, at, done)
  PROVE  Through(page, t, cur2, at2, done2)
  BY DEF Onward, Through, Dated

\* A page fetched from t on stays full for the pass that fetched it.
LEMMA FullStays ==
  ASSUME NEW n \in Int, NEW t \in Int, t <= n, NEW since \in Int, NEW sheet,
         NEW cur, NEW at, NEW done, NEW cur2, NEW at2, NEW done2,
         Onward(n, cur, at, done, cur2, at2, done2), Dated(cur2, at2),
         Full(sheet, since, t, cur, at)
  PROVE  Full(sheet, since, t, cur2, at2)
  BY DEF Onward, Full, Dated

\* What a page leaves to do stays left, or is done.
LEMMA LeftStays ==
  ASSUME NEW n \in Int, NEW t \in Int, t <= n, NEW page, NEW items,
         NEW cur, NEW at, NEW done, NEW cur2, NEW at2, NEW done2,
         Onward(n, cur, at, done, cur2, at2, done2), Dated(cur2, at2),
         Left(page, items, t, cur, at, done)
  PROVE  Left(page, items, t, cur2, at2, done2)
  BY DEF Onward, Left, Dated

(* A poll that does nothing while others go on stays sound.                *)
LEMMA SoundStays ==
  ASSUME NEW n \in Int, NEW n2 \in Int, n <= n2, NEW q \in PassRow,
         NEW cur, NEW at, NEW done, NEW cur2, NEW at2, NEW done2,
         Onward(n, cur, at, done, cur2, at2, done2), Dated(cur2, at2),
         Sound(q, n, cur, at, done)
  PROVE  Sound(q, n2, cur2, at2, done2)
<1>1. /\ q.since \in Int /\ q.started \in Int /\ q.token \in Int /\ q.on \in Int
      /\ q.ahead \in Seq(Sheet) /\ Len(q.ahead) \in Nat
  BY DEF PassRow, Stamp, Instant, Never
<1>2. q.since <= n /\ q.started <= n /\ q.since <= n2 /\ q.started <= n2
  BY <1>1 DEF Sound
<1>3. Honest(q.since, cur2, at2, done2)
  BY <1>1, <1>2, HonestStays DEF Sound
<1>4. \A j \in 1 .. Len(q.ahead) : Full(q.ahead[j], q.since, q.started, cur2, at2)
  BY <1>1, <1>2, FullStays DEF Sound
<1>5. q.step \in {"screen", "fetch"} =>
          Through(q.token - Len(q.ahead) - 1, q.started, cur2, at2, done2)
  BY <1>1, <1>2, ThroughStays DEF Sound
<1>6. q.step \in {"page", "decrypt"} =>
          /\ Through(q.on - 1, q.started, cur2, at2, done2)
          /\ ~q.spent => Left(q.on, q.items, q.started, cur2, at2, done2)
  BY <1>1, <1>2, ThroughStays, LeftStays DEF Sound
<1> QED  BY <1>2, <1>3, <1>4, <1>5, <1>6 DEF Sound

\* A saved cursor stays honest while time passes.
LEMMA KeptStays ==
  ASSUME NEW n \in Int, NEW n2 \in Int, n <= n2, NEW c \in Cursors,
         NEW cur, NEW at, NEW done, NEW cur2, NEW at2, NEW done2,
         Onward(n, cur, at, done, cur2, at2, done2), Dated(cur2, at2),
         Kept(c, n, cur, at, done)
  PROVE  Kept(c, n2, cur2, at2, done2)
<1>1. c.since \in Int /\ c.started \in Int /\ c.token \in Int
  BY DEF Cursors, Instant, Never
<1> QED  BY <1>1, HonestStays, ThroughStays DEF Kept

-----------------------------------------------------------------------------
(* What a step of the journal poller keeps. *)

(* The entries are dated.                                                  *)
LEMMA EntriesDated ==
  ASSUME JournalTypes
  PROVE  /\ Dated(Current, changedAt)
         /\ \A i \in Current : /\ i \in Version /\ i[1] \in Entry
                               /\ PageOf[i[1]] \in 1 .. Pages /\ changedAt[i[1]] \in Instant
<1>1. ASSUME NEW i \in Current
      PROVE  /\ i \in Version /\ i[1] \in Entry
             /\ PageOf[i[1]] \in 1 .. Pages /\ changedAt[i[1]] \in Instant
  <2>1. PICK e \in Entry : version[e] > 0 /\ i = <<e, version[e]>>
    BY DEF Current
  <2>2. version[e] \in 0 .. MaxVersion /\ i[1] = e
    BY <2>1 DEF JournalTypes
  <2>3. version[e] \in 1 .. MaxVersion
    BY <2>1, <2>2, JournalAssumption
  <2> QED  BY <2>1, <2>2, <2>3, JournalAssumption DEF Version, JournalTypes
<1>2. \A i \in Current : changedAt[i[1]] \in Int
  BY <1>1 DEF Instant
<1> QED  BY <1>1, <1>2 DEF Dated

(* A poller at rest has promised nothing.                                  *)
LEMMA RestIsSound ==
  ASSUME JournalTypes, now \in Nat
  PROVE  NoPass \in PassRow /\ \A done : Sound(NoPass, now, Current, changedAt, done)
<1>1. NoPass \in PassRow
  BY JournalAssumption DEF NoPass, PassRow, Stamp, Never, Nothing
<1>2. \A done : Honest(Never, Current, changedAt, done)
  BY EntriesDated DEF Honest, Never, Instant
<1>3. Len(<<>>) = 0 /\ now >= Never
  BY DEF Never
<1>4. NoPass.step = "rest" /\ NoPass.since = Never /\ NoPass.started = Never
      /\ NoPass.ahead = <<>> /\ NoPass.token = 1
  BY DEF NoPass
<1> HIDE DEF NoPass
<1> QED  BY <1>1, <1>2, <1>3, <1>4 DEF Sound

(* One poller moves.                                                       *)
LEMMA Becomes ==
  ASSUME JournalTypes, NEW p \in Poller, NEW q \in PassRow, Become(p, q)
  PROVE  /\ pass' \in [Poller -> PassRow] /\ pass'[p] = q
         /\ \A o \in Poller \ {p} : pass'[o] = pass[o]
<1>1. pass \in [Poller -> PassRow]
  BY DEF JournalTypes, PassRow, Stamp
<1> QED  BY <1>1 DEF Become

(* Any step whose own promises hold keeps those of everybody else.         *)
LEMMA PromisesKept ==
  ASSUME JournalInv, DaemonTypes', now <= now',
         version' \in [Entry -> 0 .. MaxVersion], changedAt' \in [Entry -> Instant],
         ingested' \subseteq Version, lost' \subseteq Version, waived' \subseteq Version,
         clearing' \in BOOLEAN, breaks' \in 0 .. MaxBreaks,
         Onward(now, Current, changedAt, Settled, Current', changedAt', Settled'),
         UNCHANGED watermark \/ /\ watermark' \in Stamp /\ watermark' <= now'
                                /\ Honest(watermark', Current', changedAt', Settled'),
         cursor' \in {cursor, NoCursor} \/
            (cursor' \in Cursors /\ Kept(cursor', now', Current', changedAt', Settled')),
         pass' \in [Poller -> PassRow],
         \A p \in Poller : \/ pass'[p] = pass[p]
                           \/ Sound(pass'[p], now', Current', changedAt', Settled')
  PROVE  JournalInv'
<1>1. now \in Int /\ now' \in Int /\ pass \in [Poller -> PassRow]
  BY DEF JournalInv, DaemonTypes, JournalTypes, PassRow, Stamp
<1>2. watermark \in Stamp /\ cursor \in Cursors \cup {NoCursor}
  BY DEF JournalInv, JournalTypes, Stamp
<1>3. JournalTypes'
  <2>1. watermark' \in Instant \cup {Never}
    BY <1>2 DEF Stamp
  <2>2. cursor' \in Cursors \cup {NoCursor}
    BY <1>2
  <2> QED  BY <2>1, <2>2 DEF JournalTypes, PassRow, Stamp
<1>4. Dated(Current', changedAt')
  <2>1. Dated(Current, changedAt)'
    BY <1>3, EntriesDated, PTL
  <2> QED  BY <2>1 DEF Dated
<1>5. watermark' <= now' /\ Honest(watermark', Current', changedAt', Settled')
  <2>1. CASE UNCHANGED watermark
    <3>1. watermark \in Int /\ watermark <= now /\ Honest(watermark, Current, changedAt, Settled)
      BY <1>2 DEF JournalInv, Stamp, Instant, Never
    <3>2. watermark <= now'
      BY <1>1, <3>1
    <3>3. Honest(watermark, Current', changedAt', Settled')
      BY <1>1, <1>4, <3>1, HonestStays
    <3> QED  BY <2>1, <3>2, <3>3
  <2> QED  BY <2>1
<1>6. cursor' # NoCursor => Kept(cursor', now', Current', changedAt', Settled')
  <2>1. CASE cursor' = cursor /\ cursor # NoCursor
    <3>1. cursor \in Cursors /\ Kept(cursor, now, Current, changedAt, Settled)
      BY <1>2, <2>1 DEF JournalInv
    <3>2. Kept(cursor, now', Current', changedAt', Settled')
      BY <1>1, <1>4, <3>1, KeptStays
    <3> QED  BY <2>1, <3>2
  <2> QED  BY <2>1
<1>7. ASSUME NEW p \in Poller  PROVE Sound(pass'[p], now', Current', changedAt', Settled')
  <2>1. CASE pass'[p] = pass[p]
    <3>1. pass[p] \in PassRow /\ Sound(pass[p], now, Current, changedAt, Settled)
      BY <1>1 DEF JournalInv
    <3>2. Sound(pass[p], now', Current', changedAt', Settled')
      BY <1>1, <1>4, <3>1, SoundStays
    <3> QED  BY <2>1, <3>2
  <2> QED  BY <2>1
<1> QED  BY <1>3, <1>5, <1>6, <1>7 DEF JournalInv

(* What a poller does changes no entry.                                    *)
LEMMA NothingIsEdited ==
  ASSUME JournalInv, UNCHANGED <<version, changedAt>>,
         Settled \subseteq Settled'
  PROVE  /\ Current' = Current /\ changedAt' = changedAt
         /\ Onward(now, Current, changedAt, Settled, Current', changedAt', Settled')
<1>1. Current' = Current /\ changedAt' = changedAt
  BY DEF Current
<1> QED  BY <1>1 DEF Onward

(* A poll that only reads on, or ends, and gives its cursor up or saves    *)
(* one that is sound.                                                      *)
LEMMA PollReadsOn ==
  ASSUME JournalInv, NEW p \in Poller, NEW q \in PassRow, Become(p, q),
         Sound(q, now, Current, changedAt, Settled),
         UNCHANGED <<now, version, changedAt, watermark, ingested, clearing, waived>>, DaemonTypes',
         lost' \subseteq Version, breaks' \in 0 .. MaxBreaks,
         cursor' \in {cursor, NoCursor} \/
            (cursor' \in Cursors /\ Kept(cursor', now, Current, changedAt, Settled))
  PROVE  JournalInv'
<1>1. now' = now /\ DaemonTypes' /\ now <= now'
  BY DEF JournalInv, DaemonTypes
<1>2. Settled' = Settled /\ version' = version /\ changedAt' = changedAt /\ UNCHANGED watermark
  BY DEF Settled
<1>3. /\ Current' = Current
      /\ Onward(now, Current, changedAt, Settled, Current', changedAt', Settled')
  BY <1>2, NothingIsEdited
<1>4. /\ version' \in [Entry -> 0 .. MaxVersion] /\ changedAt' \in [Entry -> Instant]
      /\ ingested' \subseteq Version /\ waived' \subseteq Version /\ clearing' \in BOOLEAN
  BY DEF JournalInv, JournalTypes
<1>5. /\ pass' \in [Poller -> PassRow]
      /\ \A o \in Poller : \/ pass'[o] = pass[o]
                           \/ Sound(pass'[o], now', Current', changedAt', Settled')
  BY <1>1, <1>2, <1>3, Becomes DEF JournalInv
<1>6. cursor' \in {cursor, NoCursor} \/
            (cursor' \in Cursors /\ Kept(cursor', now', Current', changedAt', Settled'))
  BY <1>1, <1>2, <1>3
<1> QED  BY <1>1, <1>2, <1>3, <1>4, <1>5, <1>6, PromisesKept

(* A poll ends.                                                            *)
LEMMA PollEnds ==
  ASSUME JournalInv, NEW p \in Poller, Become(p, NoPass),
         UNCHANGED <<now, version, changedAt, watermark, ingested, clearing, waived>>, DaemonTypes',
         lost' \subseteq Version, breaks' \in 0 .. MaxBreaks,
         cursor' \in {cursor, NoCursor} \/
            (cursor' \in Cursors /\ Kept(cursor', now, Current, changedAt, Settled))
  PROVE  JournalInv'
<1>1. NoPass \in PassRow /\ Sound(NoPass, now, Current, changedAt, Settled)
  BY RestIsSound DEF JournalInv, DaemonTypes
<1> QED  BY <1>1, PollReadsOn

(* The service starts with every promise kept.                             *)
LEMMA InitJournal == DaemonInit /\ JournalInit => JournalInv
<1> SUFFICES ASSUME DaemonInit, JournalInit  PROVE JournalInv
  OBVIOUS
<1>1. now = 0 /\ DaemonTypes
  BY DaemonAssumption DEF DaemonInit, DaemonTypes
<1>2. JournalTypes
  <2>1. 0 \in Instant /\ 0 \in 0 .. MaxVersion /\ 0 \in 0 .. MaxBreaks
    BY DaemonAssumption, JournalAssumption DEF Instant
  <2>2. NoPass \in PassRow
    BY JournalAssumption DEF NoPass, PassRow, Stamp, Never, Nothing
  <2> QED  BY <2>1, <2>2 DEF JournalInit, JournalTypes, PassRow, Stamp
<1>3. Sound(NoPass, now, Current, changedAt, Settled)
  BY <1>1, <1>2, RestIsSound
<1>4. Current = {}
  BY DEF Current, JournalInit
<1>5. watermark <= now /\ cursor = NoCursor /\ \A p \in Poller : pass[p] = NoPass
  BY <1>1 DEF JournalInit, Never
<1> QED  BY <1>1, <1>2, <1>3, <1>4, <1>5 DEF JournalInv, Honest

(* An entry is written or edited: now, so no watermark is past it.         *)
LEMMA WriteKeepsJournal ==
  ASSUME JournalInv, NEW e \in Entry, WriteEntry(e)
  PROVE  JournalInv'
<1>1. now' = now /\ DaemonTypes' /\ now <= now' /\ now \in Instant
  BY DEF JournalInv, DaemonTypes, daemonVars, WriteEntry, Instant
<1>2. /\ version \in [Entry -> 0 .. MaxVersion] /\ changedAt \in [Entry -> Instant]
      /\ pass \in [Poller -> PassRow]
  BY DEF JournalInv, JournalTypes, PassRow, Stamp
<1>3. version[e] + 1 \in 0 .. MaxVersion
  BY <1>2, JournalAssumption DEF WriteEntry
<1>4. version' \in [Entry -> 0 .. MaxVersion] /\ changedAt' \in [Entry -> Instant]
  BY <1>1, <1>2, <1>3 DEF WriteEntry
<1>5. changedAt'[e] = now /\ \A o \in Entry \ {e} : changedAt'[o] = changedAt[o] /\ version'[o] = version[o]
  BY <1>2 DEF WriteEntry
<1>6. \A i \in Current' : \/ i \in Current /\ changedAt'[i[1]] = changedAt[i[1]]
                          \/ changedAt'[i[1]] >= now
  <2> SUFFICES ASSUME NEW i \in Current'
               PROVE  \/ i \in Current /\ changedAt'[i[1]] = changedAt[i[1]]
                      \/ changedAt'[i[1]] >= now
    OBVIOUS
  <2>1. PICK o \in Entry : version'[o] > 0 /\ i = <<o, version'[o]>>
    BY DEF Current
  <2>2. CASE o = e
    BY <1>1, <1>5, <2>1, <2>2 DEF Instant
  <2>3. CASE o # e
    BY <1>5, <2>1, <2>3 DEF Current
  <2> QED  BY <2>2, <2>3
<1>7. Settled' = Settled
  BY DEF WriteEntry, Settled
<1>8. Onward(now, Current, changedAt, Settled, Current', changedAt', Settled')
  BY <1>6, <1>7 DEF Onward
<1>9. /\ ingested' \subseteq Version /\ lost' \subseteq Version /\ waived' \subseteq Version
      /\ clearing' \in BOOLEAN /\ breaks' \in 0 .. MaxBreaks
      /\ UNCHANGED watermark /\ cursor' \in {cursor, NoCursor} /\ pass' = pass
  BY DEF JournalInv, JournalTypes, WriteEntry
<1> QED  BY <1>1, <1>2, <1>4, <1>8, <1>9, PromisesKept

(* The owner skips to now: what there is by then is waived.                *)
LEMMA SkipKeepsJournal ==
  ASSUME JournalInv, SkipClears \/ SkipToNow
  PROVE  JournalInv'
<1>1. now' = now /\ DaemonTypes' /\ now <= now' /\ now \in Instant
  BY DEF JournalInv, DaemonTypes, daemonVars, SkipClears, SkipToNow, Instant
<1>2. /\ pass \in [Poller -> PassRow] /\ UNCHANGED <<version, changedAt>>
      /\ JournalTypes
  BY DEF JournalInv, JournalTypes, PassRow, Stamp, SkipClears, SkipToNow
<1>3. Settled \subseteq Settled'
  BY DEF Settled, SkipClears, SkipToNow
<1>4. /\ Current' = Current /\ changedAt' = changedAt
      /\ Onward(now, Current, changedAt, Settled, Current', changedAt', Settled')
  BY <1>2, <1>3, NothingIsEdited
<1>5. Current \subseteq Version
  BY <1>2, EntriesDated
<1>6. /\ version' \in [Entry -> 0 .. MaxVersion] /\ changedAt' \in [Entry -> Instant]
      /\ ingested' \subseteq Version /\ lost' \subseteq Version /\ waived' \subseteq Version
      /\ clearing' \in BOOLEAN /\ breaks' \in 0 .. MaxBreaks
      /\ cursor' \in {cursor, NoCursor} /\ pass' = pass
  BY <1>2, <1>5 DEF JournalTypes, SkipClears, SkipToNow
<1>7. UNCHANGED watermark \/ /\ watermark' \in Stamp /\ watermark' <= now'
                             /\ Honest(watermark', Current', changedAt', Settled')
  <2>1. CASE SkipClears
    BY <2>1 DEF SkipClears
  <2>2. CASE SkipToNow
    <3>1. Current' \subseteq Settled'
      BY <1>4, <2>2 DEF SkipToNow, Settled
    <3>2. watermark' = now
      BY <2>2 DEF SkipToNow
    <3> QED  BY <1>1, <3>1, <3>2 DEF Honest, Stamp, Instant
  <2> QED  BY <2>1, <2>2
<1> QED  BY <1>1, <1>2, <1>4, <1>6, <1>7, PromisesKept

(* What is known of a poll before it moves.                                *)
LEMMA PollAsItIs ==
  ASSUME JournalInv, NEW p \in Poller
  PROVE  /\ pass[p] \in PassRow /\ Sound(pass[p], now, Current, changedAt, Settled)
         /\ now \in Instant /\ breaks \in 0 .. MaxBreaks
         /\ ingested \subseteq Version /\ lost \subseteq Version /\ waived \subseteq Version
         /\ watermark \in Stamp /\ cursor \in Cursors \cup {NoCursor}
         /\ JournalTypes
  BY DEF JournalInv, JournalTypes, DaemonTypes, Instant, PassRow, Stamp

(* A poll begins afresh, or where one was interrupted.                     *)
LEMMA BeginKeepsJournal ==
  ASSUME JournalInv, NEW p \in Poller, BeginPoll(p)
  PROVE  JournalInv'
<1>1. PICK allowBase \in BOOLEAN : Begin(p, allowBase)
  BY DEF BeginPoll
<1> DEFINE fresh == cursor = NoCursor
           q == [NoPass EXCEPT
                    !.step = IF fresh /\ (IF fresh THEN watermark ELSE cursor.since) # Never /\ ~allowBase
                             THEN "screen" ELSE "fetch",
                    !.resumed = ~fresh,
                    !.since = IF fresh THEN watermark ELSE cursor.since,
                    !.started = IF fresh THEN Never ELSE cursor.started,
                    !.token = IF fresh THEN 1 ELSE cursor.token,
                    !.budget = PerPoll]
<1>2. Become(p, q)
  BY <1>1 DEF Begin
<1>3. /\ watermark \in Stamp /\ now \in Instant /\ JournalTypes
      /\ ~fresh => cursor \in Cursors /\ Kept(cursor, now, Current, changedAt, Settled)
      /\ watermark <= now /\ Honest(watermark, Current, changedAt, Settled)
  BY PollAsItIs DEF JournalInv
<1>4. /\ q.step \in {"screen", "fetch"} /\ (q.step = "screen" => fresh)
      /\ q.since = IF fresh THEN watermark ELSE cursor.since
      /\ q.started = IF fresh THEN Never ELSE cursor.started
      /\ q.token = IF fresh THEN 1 ELSE cursor.token
      /\ q.ahead = <<>> /\ q.fetched = 0
  BY DEF NoPass
<1>5. q \in PassRow
  <2>1. NoPass \in PassRow
    BY <1>3, RestIsSound DEF Instant
  <2>2. q.since \in Stamp /\ q.started \in Stamp /\ q.token \in 1 .. Pages + 1
    BY <1>3, <1>4, JournalAssumption DEF Cursors, Stamp
  <2>3. PerPoll \in 0 .. PerPoll
    BY JournalAssumption
  <2> QED  BY <1>4, <2>1, <2>2, <2>3 DEF PassRow
<1>6. Sound(q, now, Current, changedAt, Settled)
  <2>1. Len(q.ahead) = 0 /\ now >= 0
    BY <1>3, <1>4 DEF Instant
  <2>2. CASE fresh
    <3>1. Through(0, Never, Current, changedAt, Settled)
      BY <1>3, EntriesDated DEF Through
    <3>2. Never <= now /\ 1 <= Pages /\ 0 < PagesPerPoll
      BY <2>1, JournalAssumption, <1>3 DEF Never, Instant
    <3>3. q.since = watermark /\ q.started = Never /\ q.token = 1
      BY <1>4, <2>2
    <3>4. q.token - Len(q.ahead) - 1 = 0 /\ 0 < q.token
      BY <2>1, <3>3
    <3> HIDE DEF q
    <3> QED  BY <1>3, <1>4, <2>1, <3>1, <3>2, <3>3, <3>4 DEF Sound
  <2>3. CASE ~fresh
    <3>1. q.since = cursor.since /\ q.started = cursor.started /\ q.token = cursor.token
          /\ q.step = "fetch"
      BY <1>4, <2>3
    <3>2. q.since <= now /\ q.started <= now /\ q.started # Never /\ q.token \in 1 .. Pages
      BY <1>3, <2>3, <3>1 DEF Kept, Cursors, Instant, Never
    <3>3. /\ Honest(q.since, Current, changedAt, Settled)
          /\ Through(q.token - 1, q.started, Current, changedAt, Settled)
      BY <1>3, <2>3, <3>1 DEF Kept
    <3>4. q.token - Len(q.ahead) - 1 = q.token - 1 /\ 0 < q.token /\ q.token <= Pages
      BY <2>1, <3>2, JournalAssumption
    <3> HIDE DEF q
    <3> QED  BY <1>4, <2>1, <3>1, <3>2, <3>3, <3>4 DEF Sound
  <2> QED  BY <2>2, <2>3
<1> HIDE DEF q
<1>7. /\ UNCHANGED <<now, version, changedAt, watermark, ingested, clearing, waived>>
      /\ DaemonTypes' /\ lost' \subseteq Version /\ breaks' \in 0 .. MaxBreaks
      /\ cursor' \in {cursor, NoCursor}
  BY DEF BeginPoll, JournalInv, JournalTypes, DaemonTypes, daemonVars
<1> QED  BY <1>2, <1>5, <1>6, <1>7, PollReadsOn

(* The polls that end: a request fails, the cursor is cleared, the future  *)
(* is dropped, the process dies.                                           *)
LEMMA EndKeepsJournal ==
  ASSUME JournalInv,
         (\E p \in Poller : RequestFails(p) \/ ClearCursor(p)) \/ DropPoll \/ JournalRestarts
  PROVE  JournalInv'
<1>1. \A p \in Poller : {pass[p].held} \ {Nothing} \subseteq Version
  BY PollAsItIs DEF PassRow
<1>2. lost \subseteq Version /\ breaks \in 0 .. MaxBreaks /\ DaemonTypes
  BY DEF JournalInv, JournalTypes
<1>3. ASSUME NEW p \in Poller, RequestFails(p) \/ ClearCursor(p)  PROVE JournalInv'
  <2>1. /\ Become(p, NoPass) /\ lost' = lost /\ cursor' \in {cursor, NoCursor}
        /\ UNCHANGED <<daemonVars, version, changedAt, watermark, ingested, clearing, waived>>
        /\ breaks' \in 0 .. MaxBreaks
    BY <1>2, <1>3, JournalAssumption DEF RequestFails, ClearCursor, Break
  <2>2. DaemonTypes' /\ now' = now
    BY <1>2, <2>1 DEF DaemonTypes, daemonVars
  <2> QED  BY <1>2, <2>1, <2>2, PollEnds
<1>4. CASE DropPoll
  <2>1. /\ Become("serve", NoPass) /\ cursor' = cursor
        /\ UNCHANGED <<daemonVars, version, changedAt, watermark, ingested, clearing, waived>>
        /\ breaks' \in 0 .. MaxBreaks /\ lost' = lost \cup ({pass["serve"].held} \ {Nothing})
    BY <1>2, <1>4, JournalAssumption DEF DropPoll, EndsEarly, Break
  <2>2. DaemonTypes' /\ now' = now /\ "serve" \in Poller
    BY <1>2, <2>1 DEF DaemonTypes, daemonVars, Poller
  <2>3. lost' \subseteq Version
    BY <1>1, <1>2, <2>1, <2>2
  <2> QED  BY <1>2, <2>1, <2>2, <2>3, PollEnds
<1>5. CASE JournalRestarts
  <2>1. PICK p \in Poller : EndsEarly(p)
    BY <1>5 DEF JournalRestarts
  <2>2. /\ Become(p, NoPass) /\ cursor' = cursor
        /\ UNCHANGED <<now, version, changedAt, watermark, ingested, clearing, waived>>
        /\ breaks' \in 0 .. MaxBreaks /\ lost' = lost \cup ({pass[p].held} \ {Nothing})
    BY <1>2, <1>5, <2>1 DEF JournalRestarts, EndsEarly, Restarts
  <2>3. DaemonTypes'
    BY <1>2, <1>5, DaemonAssumption DEF DaemonTypes, JournalRestarts, Restarts
  <2>4. lost' \subseteq Version
    BY <1>1, <1>2, <2>2
  <2> QED  BY <1>2, <2>2, <2>3, <2>4, PollEnds
<1> QED  BY <1>3, <1>4, <1>5

(* What appending does.                                                    *)
LEMMA Appended ==
  ASSUME NEW S, NEW s \in Seq(S), NEW x \in S
  PROVE  /\ Append(s, x) \in Seq(S) /\ Len(Append(s, x)) = Len(s) + 1 /\ Append(s, x) # <<>>
         /\ Append(s, x)[Len(s) + 1] = x
         /\ \A j \in 1 .. Len(s) : Append(s, x)[j] = s[j]
<1>1. Append(s, x) \in Seq(S) /\ Len(Append(s, x)) = Len(s) + 1
  OBVIOUS
<1>2. Append(s, x)[Len(s) + 1] = x /\ \A j \in 1 .. Len(s) : Append(s, x)[j] = s[j]
  OBVIOUS
<1>3. Append(s, x) # <<>>
  <2>1. Len(<<>>) = 0 /\ Len(s) \in Nat
    OBVIOUS
  <2>2. Len(Append(s, x)) # 0
    BY <1>1, <2>1
  <2> QED  BY <2>1, <2>2, Zenon
<1> QED  BY <1>1, <1>2, <1>3

(* A page is asked for, to be read ahead; too many rows end the pass.      *)
LEMMA ScreenKeepsJournal ==
  ASSUME JournalInv, NEW p \in Poller, Screen(p)
  PROVE  JournalInv'
<1> DEFINE old == pass[p]
           sheet == SheetOf(old.token, old.since)
           t == IF old.started = Never THEN now ELSE old.started
           ahead == Append(old.ahead, sheet)
           q == [Fetched(old) EXCEPT !.ahead = ahead]
           r == [Fetched(old) EXCEPT !.ahead = ahead, !.step = "fetch"]
<1>1. /\ old \in PassRow /\ Sound(old, now, Current, changedAt, Settled)
      /\ now \in Instant /\ JournalTypes /\ old.step = "screen"
      /\ breaks \in 0 .. MaxBreaks /\ lost \subseteq Version
  BY PollAsItIs DEF Screen, InPass
<1> HIDE DEF old
<1>2. /\ old.token \in 1 .. Pages /\ old.fetched + 1 \in 0 .. PagesPerPoll
      /\ old.token + 1 \in 1 .. Pages + 1 /\ old.ahead \in Seq(Sheet) /\ Len(old.ahead) \in Nat
      /\ old.since \in Int /\ t \in Instant /\ old.since \in Stamp
  <2>1. /\ old.token <= Pages /\ old.fetched < PagesPerPoll
        /\ old.token \in 1 .. Pages + 1 /\ old.fetched \in 0 .. PagesPerPoll
        /\ old.ahead \in Seq(Sheet) /\ old.since \in Stamp /\ old.started \in Stamp
    BY <1>1 DEF PassRow, Sound
  <2>2. old.since \in Int /\ t \in Instant
    BY <1>1, <2>1 DEF Stamp, Instant, Never
  <2> QED  BY <2>1, <2>2, JournalAssumption
<1>3. sheet \in Sheet /\ sheet.token = old.token
  BY <1>1, <1>2, EntriesDated DEF SheetOf, Sheet, PassRow, Stamp
<1>4. Full(sheet, old.since, t, Current, changedAt)
  BY DEF Full, SheetOf
<1>5. /\ ahead \in Seq(Sheet) /\ Len(ahead) = Len(old.ahead) + 1 /\ ahead # <<>>
      /\ ahead[Len(old.ahead) + 1] = sheet
      /\ \A j \in 1 .. Len(old.ahead) : ahead[j] = old.ahead[j]
  <2> HIDE DEF sheet
  <2> QED  BY <1>2, <1>3, Appended
<1> HIDE DEF sheet, ahead
<1>len. Len(ahead) = Len(old.ahead) + 1 /\ Len(old.ahead) \in Int /\ old.token \in Int
  BY <1>2, <1>5
<1>6. /\ q \in PassRow /\ r \in PassRow
      /\ q.step = "screen" /\ r.step = "fetch"
      /\ q.since = old.since /\ q.started = t /\ q.token = old.token + 1 /\ q.ahead = ahead
      /\ q.fetched = old.fetched + 1
      /\ r.since = old.since /\ r.started = t /\ r.token = old.token + 1 /\ r.ahead = ahead
  <2>1. t \in Stamp
    BY <1>2 DEF Stamp
  <2> QED  BY <1>1, <1>2, <1>5, <2>1 DEF PassRow, Fetched
<1>7. /\ old.since <= now /\ t <= now /\ t # Never /\ Len(ahead) < old.token + 1
      /\ Honest(old.since, Current, changedAt, Settled)
  <2>1. t <= now
    BY <1>1, <1>2 DEF Sound, Instant
  <2>2. t # Never
    BY <1>2 DEF Instant, Never
  <2>3. old.since <= now /\ Honest(old.since, Current, changedAt, Settled) /\ Len(old.ahead) < old.token
    BY <1>1 DEF Sound
  <2> QED  BY <1>2, <1>5, <2>1, <2>2, <2>3
<1>8. ASSUME NEW j \in 1 .. Len(ahead)
      PROVE  /\ ahead[j].token = (old.token + 1) - Len(ahead) + j - 1
             /\ Full(ahead[j], old.since, t, Current, changedAt)
  <2>1. CASE j = Len(old.ahead) + 1
    <3>1. old.token = (old.token + 1) - Len(ahead) + j - 1
      BY <1>len, <2>1
    <3> QED  BY <1>3, <1>4, <1>5, <2>1, <3>1
  <2>2. CASE j \in 1 .. Len(old.ahead)
    <3>1. old.ahead # <<>> /\ old.started # Never
      BY <1>1, <1>2, <2>2 DEF Sound
    <3>2. t = old.started
      BY <3>1
    <3>3. /\ old.ahead[j].token = old.token - Len(old.ahead) + j - 1
          /\ Full(old.ahead[j], old.since, t, Current, changedAt)
      BY <1>1, <2>2, <3>2 DEF Sound
    <3>4. old.token - Len(old.ahead) + j - 1 = (old.token + 1) - Len(ahead) + j - 1
      BY <1>len, <2>2
    <3> QED  BY <1>5, <2>2, <3>3, <3>4
  <2> QED  BY <1>2, <1>5, <2>1, <2>2
<1>9. Through((old.token + 1) - Len(ahead) - 1, t, Current, changedAt, Settled)
  <2>1. (old.token + 1) - Len(ahead) - 1 = old.token - Len(old.ahead) - 1
    BY <1>len
  <2>2. CASE old.started = Never
    <3>1. old.token - Len(old.ahead) - 1 = 0
      BY <1>1, <2>2 DEF Sound
    <3> QED  BY <1>1, <2>1, <3>1, EntriesDated DEF Through
  <2>3. CASE old.started # Never
    BY <1>1, <2>1, <2>3 DEF Sound
  <2> QED  BY <2>2, <2>3
<1>10. Sound(r, now, Current, changedAt, Settled)
  <2> HIDE DEF r, t
  <2> QED  BY <1>5, <1>6, <1>7, <1>8, <1>9 DEF Sound
<1>11. old.token + 1 <= Pages /\ old.fetched + 1 < PagesPerPoll
          => Sound(q, now, Current, changedAt, Settled)
  <2> HIDE DEF q, t
  <2> QED  BY <1>5, <1>6, <1>7, <1>8, <1>9 DEF Sound
<1>12. \/ Become(p, NoPass) \/ Become(p, r)
       \/ Become(p, q) /\ old.token + 1 <= Pages /\ old.fetched + 1 < PagesPerPoll
  <2>1. /\ Fetched(old).ahead = old.ahead /\ Fetched(old).since = old.since
        /\ Fetched(old).token = old.token + 1 /\ Fetched(old).fetched = old.fetched + 1
    BY <1>1 DEF PassRow, Fetched
  <2>2. ~(old.token + 1 > Pages) => old.token + 1 <= Pages
    BY <1>2, JournalAssumption
  <2>3. ~(old.fetched + 1 >= PagesPerPoll) => old.fetched + 1 < PagesPerPoll
    BY <1>2, JournalAssumption
  <2> QED  BY <2>1, <2>2, <2>3 DEF Screen, sheet, ahead, old
<1>13. /\ UNCHANGED <<now, version, changedAt, watermark, ingested, clearing, waived, cursor>>
       /\ DaemonTypes' /\ lost' \subseteq Version /\ breaks' \in 0 .. MaxBreaks
  BY <1>1 DEF Screen, JournalInv, DaemonTypes, daemonVars
<1> HIDE DEF q, r
<1> QED  BY <1>6, <1>10, <1>11, <1>12, <1>13, PollReadsOn, PollEnds

(* What is left of a sequence without its first element.                   *)
LEMMA Shortened ==
  ASSUME NEW S, NEW s \in Seq(S), s # <<>>
  PROVE  /\ Head(s) = s[1] /\ Head(s) \in S /\ Tail(s) \in Seq(S) /\ Len(Tail(s)) = Len(s) - 1
         /\ Len(s) >= 1
         /\ \A j \in 1 .. Len(s) - 1 : Tail(s)[j] = s[j + 1]
  OBVIOUS

(* The poll turns to a page: one it read ahead, or one it asks for now.    *)
LEMMA NextPageKeepsJournal ==
  ASSUME JournalInv, NEW p \in Poller, NextPage(p)
  PROVE  JournalInv'
<1> DEFINE old == pass[p]
<1>1. /\ old \in PassRow /\ Sound(old, now, Current, changedAt, Settled)
      /\ now \in Instant /\ JournalTypes /\ old.step = "fetch"
      /\ breaks \in 0 .. MaxBreaks /\ lost \subseteq Version
  BY PollAsItIs DEF NextPage, InPass
<1>2. /\ UNCHANGED <<now, version, changedAt, watermark, ingested, clearing, waived, cursor>>
      /\ DaemonTypes' /\ lost' \subseteq Version /\ breaks' \in 0 .. MaxBreaks
  BY <1>1 DEF NextPage, JournalInv, DaemonTypes, daemonVars
<1>3. \/ old.ahead # <<>> /\ Become(p, OnSheet([old EXCEPT !.ahead = Tail(@)], Head(old.ahead)))
      \/ /\ old.ahead = <<>> /\ old.fetched < PagesPerPoll
         /\ Become(p, OnSheet(Fetched(old), SheetOf(old.token, old.since)))
      \/ Become(p, NoPass)
  BY DEF NextPage
<1> HIDE DEF old
<1>4. /\ old.token \in 1 .. Pages + 1 /\ old.fetched \in 0 .. PagesPerPoll
      /\ old.ahead \in Seq(Sheet) /\ old.since \in Stamp /\ old.started \in Stamp
      /\ old.since \in Int /\ old.started \in Int /\ old.token \in Int
  BY <1>1 DEF PassRow, Stamp, Instant, Never
<1>5. /\ old.since <= now /\ old.started <= now
      /\ Honest(old.since, Current, changedAt, Settled)
      /\ Through(old.token - Len(old.ahead) - 1, old.started, Current, changedAt, Settled)
      /\ Len(old.ahead) < old.token
  BY <1>1 DEF Sound
<1>6. CASE old.ahead # <<>> /\ Become(p, OnSheet([old EXCEPT !.ahead = Tail(@)], Head(old.ahead)))
  <2> DEFINE first == Head(old.ahead)
             rest == Tail(old.ahead)
             q == OnSheet([old EXCEPT !.ahead = Tail(@)], first)
  <2>1. /\ first = old.ahead[1] /\ first \in Sheet /\ rest \in Seq(Sheet)
        /\ Len(rest) = Len(old.ahead) - 1 /\ Len(old.ahead) >= 1
        /\ \A j \in 1 .. Len(old.ahead) - 1 : rest[j] = old.ahead[j + 1]
    BY <1>4, <1>6, Shortened
  <2> HIDE DEF first, rest
  <2>2. /\ Len(rest) = Len(old.ahead) - 1 /\ Len(old.ahead) >= 1 /\ Len(old.ahead) \in Int
        /\ 1 \in 1 .. Len(old.ahead)
    BY <1>4, <2>1
  <2>3. /\ q \in PassRow
        /\ q.step = "page" /\ q.since = old.since /\ q.started = old.started
        /\ q.token = old.token /\ q.ahead = rest /\ q.on = first.token /\ q.items = first.items
        /\ q.spent = FALSE
    <3>1. first.token \in 1 .. Pages /\ first.items \subseteq Version
      BY <2>1 DEF Sheet
    <3> QED  BY <1>1, <2>1, <3>1 DEF PassRow, OnSheet, rest
  <2>4. /\ first.token = old.token - Len(old.ahead)
        /\ Full(first, old.since, old.started, Current, changedAt)
        /\ old.started # Never
    <3>1. /\ old.ahead[1].token = old.token - Len(old.ahead) + 1 - 1
          /\ Full(old.ahead[1], old.since, old.started, Current, changedAt)
          /\ old.started # Never
      BY <1>1, <1>6, <2>2 DEF Sound
    <3>2. old.token - Len(old.ahead) + 1 - 1 = old.token - Len(old.ahead)
      BY <1>4, <2>2
    <3> QED  BY <2>1, <3>1, <3>2
  <2>5. /\ first.token = old.token - Len(rest) - 1
        /\ first.token - 1 = old.token - Len(old.ahead) - 1
        /\ Len(rest) < old.token
    BY <1>4, <1>5, <2>2, <2>4
  <2>6. Left(first.token, first.items, old.started, Current, changedAt, Settled)
    <3> SUFFICES ASSUME NEW i \in Current, PageOf[i[1]] = first.token, changedAt[i[1]] < old.started
                 PROVE  i \in Settled \cup first.items
      BY DEF Left
    <3>1. changedAt[i[1]] \in Int
      BY <1>1, EntriesDated DEF Instant
    <3>2. changedAt[i[1]] < old.since \/ old.since <= changedAt[i[1]]
      BY <1>4, <3>1
    <3> QED  BY <1>5, <2>4, <3>2 DEF Honest, Full
  <2>7. ASSUME NEW j \in 1 .. Len(rest)
        PROVE  /\ rest[j].token = old.token - Len(rest) + j - 1
               /\ Full(rest[j], old.since, old.started, Current, changedAt)
    <3>1. j + 1 \in 1 .. Len(old.ahead) /\ j \in 1 .. Len(old.ahead) - 1
      BY <2>2
    <3>2. /\ old.ahead[j + 1].token = old.token - Len(old.ahead) + (j + 1) - 1
          /\ Full(old.ahead[j + 1], old.since, old.started, Current, changedAt)
      BY <1>1, <3>1 DEF Sound
    <3>3. old.token - Len(old.ahead) + (j + 1) - 1 = old.token - Len(rest) + j - 1
      BY <1>4, <2>2
    <3> QED  BY <2>1, <3>1, <3>2, <3>3
  <2>8. Sound(q, now, Current, changedAt, Settled)
    <3> HIDE DEF q
    <3> QED  BY <1>5, <2>3, <2>4, <2>5, <2>6, <2>7 DEF Sound
  <2>9. Become(p, q)
    BY <1>6 DEF first
  <2> HIDE DEF q
  <2> QED  BY <1>2, <2>3, <2>8, <2>9, PollReadsOn
<1>7. CASE /\ old.ahead = <<>> /\ old.fetched < PagesPerPoll
           /\ Become(p, OnSheet(Fetched(old), SheetOf(old.token, old.since)))
  <2> DEFINE sheet == SheetOf(old.token, old.since)
             t == IF old.started = Never THEN now ELSE old.started
             q == OnSheet(Fetched(old), sheet)
  <2>1. /\ old.token \in 1 .. Pages /\ old.token + 1 \in 1 .. Pages + 1
        /\ old.fetched + 1 \in 0 .. PagesPerPoll /\ Len(old.ahead) = 0
    <3>1. old.token <= Pages
      BY <1>1, <1>7 DEF Sound
    <3>2. Len(old.ahead) = 0
      BY <1>7
    <3>3. old.token \in 1 .. Pages /\ old.token + 1 \in 1 .. Pages + 1
      BY <1>4, <3>1, JournalAssumption
    <3>4. old.fetched + 1 \in 0 .. PagesPerPoll
      BY <1>4, <1>7, JournalAssumption
    <3> QED  BY <3>2, <3>3, <3>4
  <2>2. t \in Instant /\ t \in Stamp /\ t <= now /\ t # Never
    <3>1. t \in Instant /\ t \in Stamp
      BY <1>1, <1>4 DEF Stamp
    <3> QED  BY <1>1, <1>5, <3>1 DEF Instant, Never
  <2>3. sheet.token = old.token /\ sheet.items \subseteq Version
    BY <1>1, EntriesDated DEF SheetOf
  <2>4. Left(old.token, sheet.items, t, Current, changedAt, Settled)
    <3> SUFFICES ASSUME NEW i \in Current, PageOf[i[1]] = old.token, changedAt[i[1]] < t
                 PROVE  i \in Settled \cup sheet.items
      BY DEF Left
    <3>1. changedAt[i[1]] \in Int
      BY <1>1, EntriesDated DEF Instant
    <3>2. changedAt[i[1]] < old.since \/ changedAt[i[1]] >= old.since
      BY <1>4, <3>1
    <3> QED  BY <1>5, <3>2 DEF Honest, SheetOf
  <2> HIDE DEF sheet
  <2>5. Through(old.token - 1, t, Current, changedAt, Settled)
    <3>1. CASE old.started = Never
      <4>1. old.token - 1 = 0
        BY <1>1, <3>1 DEF Sound
      <4> QED  BY <1>1, <4>1, EntriesDated DEF Through
    <3>2. CASE old.started # Never
      <4>1. old.token - Len(old.ahead) - 1 = old.token - 1 /\ t = old.started
        BY <1>4, <2>1, <3>2
      <4> QED  BY <1>5, <4>1
    <3> QED  BY <3>1, <3>2
  <2>6. /\ q \in PassRow
        /\ q.step = "page" /\ q.since = old.since /\ q.started = t
        /\ q.token = old.token + 1 /\ q.ahead = <<>> /\ q.on = old.token /\ q.items = sheet.items
        /\ q.spent = FALSE
    BY <1>1, <1>7, <2>1, <2>2, <2>3 DEF PassRow, OnSheet, Fetched
  <2>7. /\ old.token = (old.token + 1) - Len(<<>>) - 1 /\ Len(<<>>) = 0 /\ 0 < old.token + 1
    BY <2>1
  <2>8. Sound(q, now, Current, changedAt, Settled)
    <3> HIDE DEF q, t
    <3> QED  BY <1>5, <2>2, <2>4, <2>5, <2>6, <2>7 DEF Sound
  <2>9. Become(p, q)
    BY <1>7 DEF sheet
  <2> HIDE DEF q
  <2> QED  BY <1>2, <2>6, <2>8, <2>9, PollReadsOn
<1>8. CASE Become(p, NoPass)
  BY <1>2, <1>8, PollEnds
<1> QED  BY <1>3, <1>6, <1>7, <1>8

(* A row of the page is taken: whoever marked it, it is dealt with.        *)
LEMMA TakeKeepsJournal ==
  ASSUME JournalInv, NEW p \in Poller, TakeEntry(p)
  PROVE  JournalInv'
<1> DEFINE old == pass[p]
<1>1. /\ old \in PassRow /\ Sound(old, now, Current, changedAt, Settled)
      /\ old.step = "page"
      /\ breaks \in 0 .. MaxBreaks /\ lost \subseteq Version /\ ingested \subseteq Version
  BY PollAsItIs DEF TakeEntry, InPass
<1>2. /\ UNCHANGED <<now, version, changedAt, watermark, clearing, waived, cursor>>
      /\ DaemonTypes' /\ lost' \subseteq Version /\ breaks' \in 0 .. MaxBreaks
  BY <1>1 DEF TakeEntry, JournalInv, DaemonTypes, daemonVars
<1>3. PICK i \in old.items :
         \/ i \in ingested /\ Become(p, [old EXCEPT !.items = @ \ {i}]) /\ UNCHANGED ingested
         \/ Become(p, [old EXCEPT !.items = @ \ {i}, !.spent = TRUE]) /\ UNCHANGED ingested
         \/ /\ old.budget > 0 /\ ingested' = ingested \cup {i}
            /\ Become(p, [old EXCEPT !.items = @ \ {i}, !.step = "decrypt", !.held = i, !.budget = @ - 1])
  BY DEF TakeEntry
<1> HIDE DEF old
<1>4. i \in Version /\ old.items \subseteq Version /\ old.budget \in 0 .. PerPoll
  BY <1>1 DEF PassRow
<1>5. CASE i \in ingested /\ Become(p, [old EXCEPT !.items = @ \ {i}]) /\ UNCHANGED ingested
  <2> DEFINE q == [old EXCEPT !.items = @ \ {i}]
  <2>1. /\ q \in PassRow /\ q.step = "page" /\ q.items = old.items \ {i}
        /\ q.since = old.since /\ q.started = old.started /\ q.token = old.token
        /\ q.ahead = old.ahead /\ q.on = old.on /\ q.spent = old.spent
    BY <1>1, <1>4 DEF PassRow
  <2>2. i \in Settled
    BY <1>5 DEF Settled
  <2>3. Left(old.on, old.items, old.started, Current, changedAt, Settled)
           => Left(old.on, q.items, old.started, Current, changedAt, Settled)
    BY <2>1, <2>2 DEF Left
  <2>4. Become(p, q)
    BY <1>5
  <2> HIDE DEF q
  <2>5. Sound(q, now, Current, changedAt, Settled)
    BY <1>1, <2>1, <2>3 DEF Sound
  <2> QED  BY <1>2, <1>5, <2>1, <2>4, <2>5, PollReadsOn
<1>6. CASE Become(p, [old EXCEPT !.items = @ \ {i}, !.spent = TRUE]) /\ UNCHANGED ingested
  <2> DEFINE q == [old EXCEPT !.items = @ \ {i}, !.spent = TRUE]
  <2>1. /\ q \in PassRow /\ q.step = "page" /\ q.spent
        /\ q.since = old.since /\ q.started = old.started /\ q.token = old.token
        /\ q.ahead = old.ahead /\ q.on = old.on
    BY <1>1, <1>4 DEF PassRow
  <2>2. Become(p, q)
    BY <1>6
  <2> HIDE DEF q
  <2>3. Sound(q, now, Current, changedAt, Settled)
    BY <1>1, <2>1 DEF Sound
  <2> QED  BY <1>2, <1>6, <2>1, <2>2, <2>3, PollReadsOn
<1>7. CASE /\ old.budget > 0 /\ ingested' = ingested \cup {i}
           /\ Become(p, [old EXCEPT !.items = @ \ {i}, !.step = "decrypt", !.held = i, !.budget = @ - 1])
  <2> DEFINE q == [old EXCEPT !.items = @ \ {i}, !.step = "decrypt", !.held = i, !.budget = @ - 1]
  <2>1. /\ q \in PassRow /\ q.step = "decrypt" /\ q.items = old.items \ {i}
        /\ q.since = old.since /\ q.started = old.started /\ q.token = old.token
        /\ q.ahead = old.ahead /\ q.on = old.on /\ q.spent = old.spent
    <3>1. old.budget - 1 \in 0 .. PerPoll
      BY <1>4, <1>7, JournalAssumption
    <3> QED  BY <1>1, <1>4, <3>1 DEF PassRow
  <2>2. Become(p, q)
    BY <1>7
  <2> HIDE DEF q
  <2>3. Settled' = Settled \cup {i} /\ now' = now
    BY <1>2, <1>7 DEF Settled
  <2>4. /\ Current' = Current /\ changedAt' = changedAt
        /\ Onward(now, Current, changedAt, Settled, Current', changedAt', Settled')
    BY <1>2, <2>3, NothingIsEdited
  <2>5. Left(old.on, old.items, old.started, Current, changedAt, Settled)
           => Left(old.on, q.items, old.started, Current, changedAt, Settled \cup {i})
    BY <2>1 DEF Left
  <2>6. Sound(old, now, Current, changedAt, Settled \cup {i})
    <3>1. now \in Int /\ now <= now /\ Dated(Current, changedAt)
      BY EntriesDated DEF JournalInv, DaemonTypes
    <3> QED  BY <1>1, <2>3, <2>4, <3>1, SoundStays
  <2>7. Sound(q, now, Current, changedAt, Settled \cup {i})
    BY <1>1, <2>1, <2>5, <2>6 DEF Sound
  <2>8. /\ pass' \in [Poller -> PassRow]
        /\ \A o \in Poller : pass'[o] = pass[o] \/ Sound(pass'[o], now', Current', changedAt', Settled')
    BY <2>1, <2>2, <2>3, <2>4, <2>7, Becomes DEF JournalInv
  <2>9. /\ version' \in [Entry -> 0 .. MaxVersion] /\ changedAt' \in [Entry -> Instant]
        /\ ingested' \subseteq Version /\ waived' \subseteq Version /\ clearing' \in BOOLEAN
        /\ now <= now' /\ UNCHANGED watermark /\ cursor' \in {cursor, NoCursor}
    BY <1>1, <1>2, <1>4, <1>7 DEF JournalInv, JournalTypes, DaemonTypes
  <2> QED  BY <1>2, <2>4, <2>8, <2>9, PromisesKept
<1> QED  BY <1>3, <1>5, <1>6, <1>7

(* An entry is handed on, or cannot be decrypted.                          *)
LEMMA DecryptKeepsJournal ==
  ASSUME JournalInv, NEW p \in Poller, IngestEntry(p) \/ DecryptFails(p)
  PROVE  JournalInv'
<1> DEFINE old == pass[p]
           q == [old EXCEPT !.step = "page", !.held = Nothing]
<1>1. /\ old \in PassRow /\ Sound(old, now, Current, changedAt, Settled)
      /\ old.step = "decrypt" /\ lost \subseteq Version /\ breaks \in 0 .. MaxBreaks
  BY PollAsItIs DEF IngestEntry, DecryptFails, InPass
<1>2. /\ UNCHANGED <<now, version, changedAt, watermark, ingested, clearing, waived, cursor>>
      /\ DaemonTypes' /\ lost' \subseteq Version /\ breaks' \in 0 .. MaxBreaks
  BY <1>1, JournalAssumption
  DEF IngestEntry, DecryptFails, Break, JournalInv, DaemonTypes, daemonVars
<1>3. Become(p, q)
  BY DEF IngestEntry, DecryptFails
<1> HIDE DEF old
<1>4. /\ q \in PassRow /\ q.step = "page" /\ q.items = old.items
      /\ q.since = old.since /\ q.started = old.started /\ q.token = old.token
      /\ q.ahead = old.ahead /\ q.on = old.on /\ q.spent = old.spent
  BY <1>1 DEF PassRow
<1> HIDE DEF q
<1>5. Sound(q, now, Current, changedAt, Settled)
  BY <1>1, <1>4 DEF Sound
<1> QED  BY <1>2, <1>3, <1>4, <1>5, PollReadsOn

(* A page is done with: the cursor says where to go on.                    *)
LEMMA SaveKeepsJournal ==
  ASSUME JournalInv, NEW p \in Poller, SaveCursor(p)
  PROVE  JournalInv'
<1> DEFINE old == pass[p]
           q == [old EXCEPT !.step = "fetch"]
           c == [since |-> old.since, started |-> old.started, token |-> ResumeToken(old)]
<1>1. /\ old \in PassRow /\ Sound(old, now, Current, changedAt, Settled)
      /\ old.step = "page" /\ old.items = {} /\ (old.spent \/ old.on # Pages)
      /\ lost \subseteq Version /\ breaks \in 0 .. MaxBreaks
  BY PollAsItIs DEF SaveCursor, PageDone, PassDone, InPass
<1>2. /\ UNCHANGED <<now, version, changedAt, watermark, ingested, clearing, waived>>
      /\ DaemonTypes' /\ lost' \subseteq Version /\ breaks' \in 0 .. MaxBreaks
  BY <1>1 DEF SaveCursor, JournalInv, DaemonTypes, daemonVars
<1>3. /\ cursor' = c
      /\ Become(p, NoPass) \/ (~old.spent /\ Become(p, q))
  BY DEF SaveCursor
<1> HIDE DEF old
<1>4. /\ old.on \in 1 .. Pages /\ old.token \in Int /\ Len(old.ahead) \in Int
      /\ old.started \in Instant /\ old.since \in Instant \cup {Never}
      /\ old.since <= now /\ old.started <= now /\ old.started # Never
      /\ old.on = old.token - Len(old.ahead) - 1
      /\ Honest(old.since, Current, changedAt, Settled)
  BY <1>1 DEF PassRow, Sound, Stamp
<1>5. /\ Through(old.on - 1, old.started, Current, changedAt, Settled)
      /\ ~old.spent => /\ Through(old.on, old.started, Current, changedAt, Settled)
                       /\ old.on + 1 \in 1 .. Pages
  <2>1. /\ Through(old.on - 1, old.started, Current, changedAt, Settled)
        /\ ~old.spent => Left(old.on, {}, old.started, Current, changedAt, Settled)
    BY <1>1 DEF Sound
  <2>2. \A i \in Current : PageOf[i[1]] \in Int
    BY EntriesDated DEF JournalInv
  <2>3. ~old.spent => Through(old.on, old.started, Current, changedAt, Settled)
    <3> SUFFICES ASSUME ~old.spent, NEW i \in Current, PageOf[i[1]] <= old.on,
                        changedAt[i[1]] < old.started
                 PROVE  i \in Settled
      BY DEF Through
    <3>1. PageOf[i[1]] = old.on \/ PageOf[i[1]] <= old.on - 1
      BY <1>4, <2>2
    <3> QED  BY <2>1, <3>1 DEF Through, Left
  <2> QED  BY <1>1, <1>4, <2>1, <2>3, JournalAssumption
<1>6. /\ c \in Cursors /\ Kept(c, now, Current, changedAt, Settled)
  <2>1. CASE old.spent
    <3>1. c.token = old.on /\ c.since = old.since /\ c.started = old.started
      BY <2>1 DEF ResumeToken
    <3> QED  BY <1>4, <1>5, <3>1, <2>1 DEF Cursors, Kept, ResumeToken
  <2>2. CASE ~old.spent
    <3>1. c.token = old.on + 1 /\ c.since = old.since /\ c.started = old.started
      BY <2>2 DEF ResumeToken
    <3>2. c.token - 1 = old.on /\ c \in Cursors
      BY <1>4, <1>5, <2>2, <3>1 DEF Cursors, ResumeToken
    <3> HIDE DEF c
    <3> QED  BY <1>4, <1>5, <2>2, <3>1, <3>2 DEF Kept
  <2> QED  BY <2>1, <2>2
<1> HIDE DEF c
<1>7. CASE Become(p, NoPass)
  BY <1>2, <1>3, <1>6, <1>7, PollEnds
<1>8. CASE ~old.spent /\ Become(p, q)
  <2>1. /\ q \in PassRow /\ q.step = "fetch"
        /\ q.since = old.since /\ q.started = old.started /\ q.token = old.token
        /\ q.ahead = old.ahead /\ q.fetched = old.fetched
    BY <1>1 DEF PassRow
  <2>2. /\ old.token - Len(old.ahead) - 1 = old.on
        /\ old.ahead = <<>> => old.token <= Pages
    <3>1. ASSUME old.ahead = <<>>  PROVE old.token <= Pages
      <4>1. Len(old.ahead) = 0
        BY <3>1
      <4>2. old.token = old.on + 1
        BY <1>4, <4>1
      <4> QED  BY <1>4, <1>5, <1>8, <4>2, JournalAssumption
    <3> QED  BY <1>4, <3>1
  <2> HIDE DEF q
  <2>3. Sound(q, now, Current, changedAt, Settled)
    BY <1>1, <1>5, <1>8, <2>1, <2>2 DEF Sound
  <2> QED  BY <1>2, <1>3, <1>6, <1>8, <2>1, <2>3, PollReadsOn
<1> QED  BY <1>3, <1>7, <1>8

(* The last page is done with: what the server may now leave out, this     *)
(* pass has found and dealt with.                                          *)
LEMMA CompleteKeepsJournal ==
  ASSUME JournalInv, NEW p \in Poller, CompletePass(p)
  PROVE  JournalInv'
<1> DEFINE old == pass[p]
           q == [old EXCEPT !.step = "clear"]
<1>1. /\ old \in PassRow /\ Sound(old, now, Current, changedAt, Settled)
      /\ old.step = "page" /\ old.items = {} /\ ~old.spent /\ old.on = Pages
      /\ lost \subseteq Version /\ breaks \in 0 .. MaxBreaks /\ now \in Int
  BY PollAsItIs DEF CompletePass, PageDone, PassDone, InPass, Instant
<1>2. /\ UNCHANGED <<now, version, changedAt, ingested, clearing, waived, cursor>>
      /\ DaemonTypes' /\ lost' \subseteq Version /\ breaks' \in 0 .. MaxBreaks /\ now <= now'
  BY <1>1 DEF CompletePass, JournalInv, DaemonTypes, daemonVars
<1>3. watermark' = old.started /\ Become(p, q)
  BY DEF CompletePass
<1> HIDE DEF old
<1>4. /\ old.started \in Instant /\ old.started <= now
      /\ Through(Pages - 1, old.started, Current, changedAt, Settled)
      /\ Left(Pages, {}, old.started, Current, changedAt, Settled)
  BY <1>1 DEF PassRow, Sound, Stamp
<1>5. Honest(old.started, Current, changedAt, Settled)
  <2> SUFFICES ASSUME NEW i \in Current, changedAt[i[1]] < old.started
               PROVE  i \in Settled
    BY DEF Honest
  <2>1. PageOf[i[1]] = Pages \/ PageOf[i[1]] <= Pages - 1
    BY EntriesDated, JournalAssumption DEF JournalInv
  <2> QED  BY <1>4, <2>1 DEF Through, Left
<1>6. /\ q \in PassRow /\ q.step = "clear" /\ q.since = old.since /\ q.started = old.started
      /\ q.token = old.token /\ q.ahead = old.ahead
  BY <1>1 DEF PassRow
<1> HIDE DEF q
<1>7. Sound(q, now, Current, changedAt, Settled)
  BY <1>1, <1>4, <1>6 DEF Sound, Instant, Never
<1>8. /\ Settled' = Settled /\ Current' = Current /\ changedAt' = changedAt
      /\ Onward(now, Current, changedAt, Settled, Current', changedAt', Settled')
  BY <1>2, NothingIsEdited DEF Settled
<1>9. /\ watermark' \in Stamp /\ watermark' <= now'
      /\ Honest(watermark', Current', changedAt', Settled')
  BY <1>2, <1>3, <1>4, <1>5, <1>8 DEF Stamp
<1>10. /\ pass' \in [Poller -> PassRow]
       /\ \A o \in Poller : pass'[o] = pass[o] \/ Sound(pass'[o], now', Current', changedAt', Settled')
  BY <1>2, <1>3, <1>6, <1>7, <1>8, Becomes DEF JournalInv
<1>11. /\ version' \in [Entry -> 0 .. MaxVersion] /\ changedAt' \in [Entry -> Instant]
       /\ ingested' \subseteq Version /\ waived' \subseteq Version /\ clearing' \in BOOLEAN
       /\ cursor' \in {cursor, NoCursor}
  BY <1>2 DEF JournalInv, JournalTypes
<1> QED  BY <1>2, <1>8, <1>9, <1>10, <1>11, PromisesKept

(* Time passes, or nothing happens here.                                   *)
LEMMA TimeKeepsJournal ==
  ASSUME JournalInv, (Tick /\ UNCHANGED journalVars) \/ UNCHANGED allJournalVars
  PROVE  JournalInv'
<1>1. DaemonTypes' /\ now <= now' /\ UNCHANGED journalVars
  BY DaemonAssumption DEF JournalInv, DaemonTypes, Tick, allJournalVars, daemonVars
<1>2. /\ UNCHANGED <<version, changedAt, watermark>> /\ cursor' = cursor /\ pass' = pass
      /\ Settled' = Settled
  BY <1>1 DEF journalVars, Settled
<1>3. Onward(now, Current, changedAt, Settled, Current', changedAt', Settled')
  BY <1>2, NothingIsEdited
<1>4. /\ version' \in [Entry -> 0 .. MaxVersion] /\ changedAt' \in [Entry -> Instant]
      /\ ingested' \subseteq Version /\ lost' \subseteq Version /\ waived' \subseteq Version
      /\ clearing' \in BOOLEAN /\ breaks' \in 0 .. MaxBreaks /\ pass' \in [Poller -> PassRow]
  BY <1>1 DEF journalVars, JournalInv, JournalTypes, PassRow, Stamp
<1> QED  BY <1>1, <1>2, <1>3, <1>4, PromisesKept

(* Every step of the service keeps every promise.                          *)
LEMMA StepJournal ==
  ASSUME JournalInv, [JournalNext]_allJournalVars
  PROVE  JournalInv'
<1>1. CASE \E e \in Entry : WriteEntry(e)
  BY <1>1, WriteKeepsJournal
<1>2. CASE SkipClears \/ SkipToNow
  BY <1>2, SkipKeepsJournal
<1>3. CASE \E p \in Poller : PassStep(p) \/ RequestFails(p) \/ DecryptFails(p)
  <2>1. PICK p \in Poller : PassStep(p) \/ RequestFails(p) \/ DecryptFails(p)
    BY <1>3
  <2>2. CASE BeginPoll(p)
    BY <2>2, BeginKeepsJournal
  <2>3. CASE Screen(p)
    BY <2>3, ScreenKeepsJournal
  <2>4. CASE NextPage(p)
    BY <2>4, NextPageKeepsJournal
  <2>5. CASE TakeEntry(p)
    BY <2>5, TakeKeepsJournal
  <2>6. CASE IngestEntry(p) \/ DecryptFails(p)
    BY <2>6, DecryptKeepsJournal
  <2>7. CASE SaveCursor(p)
    BY <2>7, SaveKeepsJournal
  <2>8. CASE CompletePass(p)
    BY <2>8, CompleteKeepsJournal
  <2>9. CASE RequestFails(p) \/ ClearCursor(p)
    BY <2>9, EndKeepsJournal
  <2> QED  BY <2>1, <2>2, <2>3, <2>4, <2>5, <2>6, <2>7, <2>8, <2>9 DEF PassStep
<1>4. CASE DropPoll \/ JournalRestarts
  BY <1>4, EndKeepsJournal
<1>5. CASE (Tick /\ UNCHANGED journalVars) \/ UNCHANGED allJournalVars
  BY <1>5, TimeKeepsJournal
<1> QED  BY <1>1, <1>2, <1>3, <1>4, <1>5 DEF JournalNext

(* The poller's variables keep their types: a pass never runs past its     *)
(* last page or its budgets.                                               *)
THEOREM JournalTypesHold == JournalSpec => []JournalTypes
<1>1. JournalInv /\ [JournalNext]_allJournalVars => JournalInv'
  BY StepJournal
<1>2. JournalInv => JournalTypes
  BY DEF JournalInv
<1> QED  BY InitJournal, <1>1, <1>2, PTL DEF JournalSpec

(* However many entries, pages and versions there are, and however polls   *)
(* are cut short, resumed and run beside each other: what the watermark    *)
(* keeps the server from sending again has been taken up or was skipped    *)
(* by the owner.                                                           *)
THEOREM TheWatermarkIsHonest == JournalSpec => []WatermarkIsHonest
<1>1. JournalInv /\ [JournalNext]_allJournalVars => JournalInv'
  BY StepJournal
<1>2. JournalInv => WatermarkIsHonest
  BY DEF JournalInv, Honest, Settled, WatermarkIsHonest
<1> QED  BY InitJournal, <1>1, <1>2, PTL DEF JournalSpec

-----------------------------------------------------------------------------
(* The direct messages. *)

DmStatus ==
    {"none", "error", "pending", "skipped", "superseded", "flagged", "sent", "rejected"}

(* The runner as far as the ledger depends on it: of its messages only the *)
(* order matters, which is that of the page they were on.                  *)
RunnerShape(r) ==
    r \in [step : {"rest", "drain", "ask", "walk", "take", "triage", "draft", "post"},
           events : SUBSET Dm, items : {r.items}, page : {r.page}]

SocialShape ==
    /\ DaemonTypes
    /\ thread \in Seq(Dm \cup {Ours})
    /\ receivedAt \in [Dm -> 0 .. MaxNow]
    /\ dmRow \in [Dm -> [status : DmStatus, retries : Nat]]
    /\ seen \subseteq Dm /\ offered \subseteq Dm /\ replying \subseteq Dm
    /\ RunnerShape(runner)
    /\ runner.page \in Seq(Dm \cup {Ours}) /\ ToSet(runner.page) \subseteq ToSet(thread)

(* A draft that went anywhere was offered first.                           *)
OfferedFirst ==
    /\ \A m \in Dm : dmRow[m].status \in {"pending", "superseded", "sent", "rejected"}
                        => m \in offered
    /\ \A m \in replying : m \in offered /\ dmRow[m].status # "none"

(* What the runner has found out of the message it is at.                  *)
AtWork ==
    \A m \in Dm : Handling(m) =>
        /\ OnStep("triage") \/ OnStep("draft") => dmRow[m].status = "none"
        /\ OnStep("post") => m \in offered

(* Why a message is in the ledger.                                         *)
Ledgered ==
    \A m \in seen : \/ m \in offered
                    \/ dmRow[m].status \in {"skipped", "flagged"}
                    \/ Stale(m) /\ InThread(m)

SocialInv == SocialShape /\ OfferedFirst /\ AtWork /\ Ledgered

(* A thread only grows.                                                    *)
LEMMA ThreadGrows ==
  ASSUME NEW t \in Seq(Dm \cup {Ours}), NEW x \in Dm \cup {Ours}
  PROVE  /\ Append(t, x) \in Seq(Dm \cup {Ours})
         /\ ToSet(t) \subseteq ToSet(Append(t, x))
<1>1. /\ Append(t, x) \in Seq(Dm \cup {Ours}) /\ Len(Append(t, x)) = Len(t) + 1
      /\ \A j \in 1 .. Len(t) : Append(t, x)[j] = t[j]
  BY Appended
<1>2. /\ DOMAIN t = 1 .. Len(t) /\ DOMAIN Append(t, x) = 1 .. Len(t) + 1 /\ Len(t) \in Nat
  BY <1>1
<1>3. \A j \in 1 .. Len(t) : j \in 1 .. Len(t) + 1
  BY <1>2
<1> QED  BY <1>1, <1>2, <1>3 DEF ToSet

(* The tail of a page is on it, and is the other party's.                  *)
LEMMA TailIsIncoming ==
  ASSUME NEW page \in Seq(Dm \cup {Ours}), NEW m \in UnansweredIn(page)
  PROVE  m \in ToSet(page) /\ m \in Dm
<1>1. PICK i \in DOMAIN page : m = page[i] /\ \A j \in DOMAIN page : page[j] = Ours => j < i
  BY DEF UnansweredIn
<1>2. i \in Int /\ page[i] \in Dm \cup {Ours}
  OBVIOUS
<1>3. page[i] # Ours
  BY <1>1, <1>2
<1> QED  BY <1>1, <1>2, <1>3 DEF ToSet

(* The ledger stays in sight of a step that marks only what it may.        *)
LEMMA LedgerStays ==
  ASSUME SocialInv, SocialShape', now <= now',
         offered \subseteq offered', ToSet(thread) \subseteq ToSet(thread'),
         \A m \in Dm : InThread(m) => receivedAt'[m] = receivedAt[m],
         \A m \in Dm : dmRow[m].status \in {"skipped", "flagged"} =>
                         dmRow'[m].status \in {"skipped", "flagged"} \/ m \in offered',
         \A m \in seen' \ seen : \/ m \in offered'
                                 \/ dmRow'[m].status \in {"skipped", "flagged"}
                                 \/ Stale(m)' /\ InThread(m)'
  PROVE  Ledgered'
<1> SUFFICES ASSUME NEW m \in seen, m \in seen'
             PROVE  \/ m \in offered'
                    \/ dmRow'[m].status \in {"skipped", "flagged"}
                    \/ Stale(m)' /\ InThread(m)'
  BY DEF Ledgered
<1>1. m \in Dm /\ now \in Int /\ now' \in Int /\ receivedAt[m] \in Int
  BY DEF SocialInv, SocialShape, DaemonTypes
<1>2. CASE Stale(m) /\ InThread(m)
  BY <1>1, <1>2, SocialAssumption DEF Stale, InThread
<1> QED  BY <1>1, <1>2 DEF SocialInv, Ledgered

(* The runner leaves a message alone, or is at one that nothing changed.   *)
LEMMA WorkStays ==
  ASSUME SocialInv, UNCHANGED runner, offered \subseteq offered',
         \A m \in Dm : dmRow[m].status = "none" => dmRow'[m].status = "none"
  PROVE  AtWork'
  BY DEF SocialInv, AtWork, Handling, OnStep

(* The conversation, the owner and the clock.                              *)
LEMMA OthersKeepSocial ==
  ASSUME SocialInv,
         \/ \E m \in Dm : \/ Receive(m) \/ Push(m) \/ ApproveDm(m) \/ DmSent(m) \/ DmNotSent(m)
                         \/ SkipDm(m)
         \/ OwnerAnswers \/ (Tick /\ UNCHANGED socialVars) \/ UNCHANGED allSocialVars
  PROVE  SocialInv'
<1> USE DEF SocialInv
<1>1. /\ now \in 0 .. MaxNow /\ dmRow \in [Dm -> [status : DmStatus, retries : Nat]]
      /\ thread \in Seq(Dm \cup {Ours})
  BY DEF SocialShape, DaemonTypes
<1>2. CASE \E m \in Dm : Receive(m)
  <2>1. PICK m \in Dm : Receive(m)
    BY <1>2
  <2>2. thread' \in Seq(Dm \cup {Ours}) /\ ToSet(thread) \subseteq ToSet(thread')
    BY <1>1, <2>1, ThreadGrows DEF Receive
  <2>3. SocialShape'
    BY <1>1, <2>1, <2>2 DEF SocialShape, Receive, daemonVars, DaemonTypes, RunnerShape
  <2>4. AtWork'
    BY <2>1, WorkStays DEF Receive
  <2>5. Ledgered'
    <3>1. \A o \in Dm : InThread(o) => receivedAt'[o] = receivedAt[o]
      BY <2>1 DEF Receive, SocialShape
    <3>2. now <= now' /\ seen' = seen /\ offered' = offered /\ dmRow' = dmRow
      BY <1>1, <2>1 DEF Receive, daemonVars
    <3> QED  BY <2>2, <2>3, <3>1, <3>2, LedgerStays
  <2> QED  BY <2>1, <2>3, <2>4, <2>5 DEF OfferedFirst, Receive
<1>3. CASE OwnerAnswers
  <2>1. thread' \in Seq(Dm \cup {Ours}) /\ ToSet(thread) \subseteq ToSet(thread')
    BY <1>1, <1>3, ThreadGrows DEF OwnerAnswers
  <2>2. SocialShape'
    BY <1>1, <1>3, <2>1 DEF SocialShape, OwnerAnswers, daemonVars, DaemonTypes, RunnerShape
  <2>3. AtWork'
    BY <1>3, WorkStays DEF OwnerAnswers
  <2>4. now <= now' /\ seen' = seen /\ offered' = offered /\ dmRow' = dmRow /\ receivedAt' = receivedAt
    BY <1>1, <1>3 DEF OwnerAnswers, daemonVars
  <2>5. Ledgered'
    BY <2>1, <2>2, <2>4, LedgerStays
  <2> QED  BY <1>3, <2>2, <2>3, <2>5 DEF OfferedFirst, OwnerAnswers
<1>4. CASE \E m \in Dm : DmSent(m) \/ DmNotSent(m)
  <2>1. PICK m \in Dm : DmSent(m) \/ DmNotSent(m)
    BY <1>4
  <2>2. PICK status \in {"sent", "error"} : dmRow' = [dmRow EXCEPT ![m].status = status]
    BY <2>1 DEF DmSent, DmNotSent, SetRow
  <2>3. /\ dmRow' \in [Dm -> [status : DmStatus, retries : Nat]]
        /\ dmRow'[m].status = status
        /\ \A o \in Dm \ {m} : dmRow'[o] = dmRow[o]
    BY <1>1, <2>2 DEF DmStatus
  <2>4. /\ m \in offered /\ m \in replying /\ replying' \subseteq replying
        /\ dmRow[m].status # "none"
        /\ UNCHANGED <<now, restarts, receivedAt, seen, offered, runner>>
    BY <2>1 DEF DmSent, DmNotSent, OfferedFirst, daemonVars
  <2>5. thread' \in Seq(Dm \cup {Ours}) /\ ToSet(thread) \subseteq ToSet(thread')
    BY <1>1, <2>1, ThreadGrows DEF DmSent, DmNotSent
  <2>6. SocialShape'
    BY <2>3, <2>4, <2>5 DEF SocialShape, DaemonTypes, RunnerShape
  <2>7. AtWork'
    <3>1. \A o \in Dm : dmRow[o].status = "none" => dmRow'[o].status = "none"
      BY <2>3, <2>4
    <3> QED  BY <2>4, <3>1, WorkStays
  <2>8. \A o \in Dm : dmRow[o].status \in {"skipped", "flagged"} =>
                         dmRow'[o].status \in {"skipped", "flagged"} \/ o \in offered'
    BY <2>3, <2>4
  <2>9. Ledgered'
    BY <1>1, <2>4, <2>5, <2>6, <2>8, LedgerStays
  <2>10. OfferedFirst'
    BY <2>2, <2>3, <2>4 DEF OfferedFirst
  <2> QED  BY <2>6, <2>7, <2>9, <2>10
<1>5. CASE \E m \in Dm : ApproveDm(m)
  <2>1. PICK m \in Dm : ApproveDm(m)
    BY <1>5
  <2>2. /\ dmRow[m].status = "pending" /\ replying' = replying \cup {m}
        /\ UNCHANGED <<now, restarts, thread, receivedAt, seen, dmRow, offered, runner>>
    BY <2>1 DEF ApproveDm, daemonVars
  <2>3. SocialShape'
    BY <2>2 DEF SocialShape, DaemonTypes, RunnerShape
  <2>4. AtWork'
    BY <2>2, WorkStays
  <2>5. Ledgered'
    BY <1>1, <2>2, <2>3, LedgerStays
  <2>6. OfferedFirst'
    BY <2>2 DEF OfferedFirst
  <2> QED  BY <2>3, <2>4, <2>5, <2>6
<1>6. CASE \E m \in Dm : SkipDm(m)
  <2>1. PICK m \in Dm : SkipDm(m)
    BY <1>6
  <2>2. /\ dmRow[m].status = "pending" /\ dmRow' = [dmRow EXCEPT ![m].status = "rejected"]
        /\ UNCHANGED <<now, restarts, thread, receivedAt, seen, replying, offered, runner>>
    BY <2>1 DEF SkipDm, SetRow, daemonVars
  <2>3. /\ dmRow' \in [Dm -> [status : DmStatus, retries : Nat]]
        /\ dmRow'[m].status = "rejected"
        /\ \A o \in Dm \ {m} : dmRow'[o] = dmRow[o]
    BY <1>1, <2>2 DEF DmStatus
  <2>4. SocialShape'
    BY <2>2, <2>3 DEF SocialShape, DaemonTypes, RunnerShape
  <2>5. AtWork'
    <3>1. \A o \in Dm : dmRow[o].status = "none" => dmRow'[o].status = "none"
      BY <2>2, <2>3
    <3> QED  BY <2>2, <3>1, WorkStays
  <2>6. \A o \in Dm : dmRow[o].status \in {"skipped", "flagged"} =>
                         dmRow'[o].status \in {"skipped", "flagged"} \/ o \in offered'
    BY <2>2, <2>3
  <2>7. Ledgered'
    BY <1>1, <2>2, <2>4, <2>6, LedgerStays
  <2>8. OfferedFirst'
    BY <2>2, <2>3 DEF OfferedFirst
  <2> QED  BY <2>4, <2>5, <2>7, <2>8
<1>7. CASE (\E m \in Dm : Push(m)) \/ (Tick /\ UNCHANGED socialVars) \/ UNCHANGED allSocialVars
  <2>1. /\ now <= now' /\ DaemonTypes'
        /\ UNCHANGED <<thread, receivedAt, seen, dmRow, replying, offered, runner>>
    BY <1>1, <1>7, DaemonAssumption
    DEF Push, Tick, socialVars, allSocialVars, daemonVars, DaemonTypes, SocialShape
  <2>2. SocialShape'
    BY <2>1 DEF SocialShape, RunnerShape
  <2>3. AtWork'
    BY <2>1, WorkStays
  <2>4. Ledgered'
    BY <2>1, <2>2, LedgerStays
  <2>5. OfferedFirst'
    BY <2>1 DEF OfferedFirst
  <2> QED  BY <2>2, <2>3, <2>4, <2>5
<1> QED  BY <1>2, <1>3, <1>4, <1>5, <1>6, <1>7

(* Away from a message the runner owes nothing.                            *)
LEMMA IdleRunner ==
  ASSUME runner'.step \notin {"triage", "draft", "post"}
  PROVE  AtWork'
  BY DEF AtWork, OnStep

(* The runner fetches, is done, or dies with the daemon.                   *)
LEMMA FetchKeepsSocial ==
  ASSUME SocialInv,
         \/ TakeEvents \/ Drained \/ ListMessages \/ ListFails \/ FetchOver \/ SocialRestarts
         \/ \E m \in Dm : DrainEvent(m)
  PROVE  SocialInv'
<1> USE DEF SocialInv
<1>1. /\ now \in 0 .. MaxNow /\ thread \in Seq(Dm \cup {Ours}) /\ RunnerShape(runner)
      /\ runner.page \in Seq(Dm \cup {Ours}) /\ ToSet(runner.page) \subseteq ToSet(thread)
  BY DEF SocialShape, DaemonTypes
<1>2. <<>> \in Seq(Dm \cup {Ours}) /\ ToSet(<<>>) = {}
  BY DEF ToSet
<1>3. /\ UNCHANGED <<now, receivedAt, seen, dmRow, offered>> /\ replying' \subseteq replying
      /\ DaemonTypes'
  <2>1. CASE SocialRestarts
    BY <2>1, DaemonAssumption DEF SocialRestarts, Restarts, SocialShape, DaemonTypes
  <2>2. CASE ~SocialRestarts
    BY <2>2 DEF TakeEvents, Drained, ListMessages, ListFails, FetchOver, DrainEvent,
                SocialShape, DaemonTypes, daemonVars
  <2> QED  BY <2>1, <2>2
<1>4. thread' \in Seq(Dm \cup {Ours}) /\ ToSet(thread) \subseteq ToSet(thread')
  <2>1. thread' = thread \/ thread' = Append(thread, Ours)
    BY DEF TakeEvents, Drained, ListMessages, ListFails, FetchOver, DrainEvent, SocialRestarts
  <2> QED  BY <1>1, <2>1, ThreadGrows
<1>5. /\ RunnerShape(runner') /\ runner'.step \notin {"triage", "draft", "post"}
      /\ runner'.page \in {<<>>, thread, runner.page}
  <2>1. CASE TakeEvents
    <3>1. PICK events \in SUBSET Queued : runner' = [NoTick EXCEPT !.step = "drain", !.events = events]
      BY <2>1 DEF TakeEvents
    <3> QED  BY <3>1 DEF NoTick, RunnerShape, Queued
  <2>2. CASE Drained \/ ListFails
    BY <1>1, <2>2 DEF Drained, ListFails, Go, RunnerShape
  <2>3. CASE ListMessages
    BY <1>1, <2>3 DEF ListMessages, RunnerShape
  <2>4. CASE FetchOver \/ SocialRestarts
    BY <2>4 DEF FetchOver, SocialRestarts, NoTick, RunnerShape
  <2>5. CASE \E m \in Dm : DrainEvent(m)
    <3>1. PICK m \in Dm, attributable \in BOOLEAN :
             /\ runner.step = "drain"
             /\ runner' = [runner EXCEPT !.events = @ \ {m},
                                   !.items = IF attributable /\ m \notin seen THEN Append(@, m)
                                                                              ELSE @]
      BY <2>5 DEF DrainEvent, OnStep
    <3> QED  BY <1>1, <3>1 DEF RunnerShape
  <2> QED  BY <2>1, <2>2, <2>3, <2>4, <2>5
<1>6. SocialShape'
  <2>1. runner'.page \in Seq(Dm \cup {Ours}) /\ ToSet(runner'.page) \subseteq ToSet(thread')
    BY <1>1, <1>2, <1>4, <1>5
  <2>2. RunnerShape(runner)'
    BY <1>5 DEF RunnerShape
  <2>3. seen' \subseteq Dm /\ offered' \subseteq Dm /\ replying' \subseteq Dm
    BY <1>3 DEF SocialShape
  <2> QED  BY <1>3, <1>4, <2>1, <2>2, <2>3 DEF SocialShape
<1>7. AtWork'
  BY <1>5, IdleRunner
<1>8. Ledgered'
  BY <1>1, <1>3, <1>4, <1>6, LedgerStays
<1>9. OfferedFirst'
  BY <1>3 DEF OfferedFirst
<1> QED  BY <1>6, <1>7, <1>8, <1>9

(* The page is read: what waits on it and is too old is settled.           *)
LEMMA WalkKeepsSocial ==
  ASSUME SocialInv, WalkTail
  PROVE  SocialInv'
<1> USE DEF SocialInv
<1> DEFINE tail == UnansweredIn(runner.page) \ ToSet(runner.items)
<1>1. /\ now \in 0 .. MaxNow /\ dmRow \in [Dm -> [status : DmStatus, retries : Nat]]
      /\ RunnerShape(runner) /\ ToSet(runner.page) \subseteq ToSet(thread)
      /\ runner.page \in Seq(Dm \cup {Ours})
  BY DEF SocialShape, DaemonTypes
<1>2. /\ UNCHANGED <<now, restarts, thread, receivedAt, replying, offered>>
      /\ seen' = seen \cup {m \in tail : Stale(m)}
      /\ dmRow' = SupersedeThread(runner.page)
      /\ \E items : runner' = [runner EXCEPT !.step = "take", !.page = <<>>, !.items = items]
  BY DEF WalkTail, daemonVars
<1>3. \A m \in tail : m \in Dm /\ InThread(m)
  BY <1>1, TailIsIncoming DEF InThread
<1> HIDE DEF tail
<1>4. /\ dmRow' \in [Dm -> [status : DmStatus, retries : Nat]]
      /\ \A m \in Dm : \/ dmRow'[m] = dmRow[m]
                       \/ dmRow[m].status = "pending" /\ dmRow'[m].status = "superseded"
  BY <1>1, <1>2 DEF SupersedeThread, DmStatus
<1>5. RunnerShape(runner)' /\ runner'.step = "take" /\ runner'.page = <<>>
  BY <1>1, <1>2 DEF RunnerShape
<1>6. SocialShape'
  <2>1. <<>> \in Seq(Dm \cup {Ours}) /\ ToSet(<<>>) = {}
    BY DEF ToSet
  <2> QED  BY <1>2, <1>3, <1>4, <1>5, <2>1 DEF SocialShape, DaemonTypes
<1>7. AtWork'
  BY <1>5, IdleRunner
<1>8. Ledgered'
  <2>1. \A m \in Dm : InThread(m)' = InThread(m) /\ Stale(m)' = Stale(m)
    BY <1>2 DEF InThread, Stale
  <2>2. \A m \in seen' \ seen : Stale(m)' /\ InThread(m)'
    BY <1>2, <1>3, <2>1
  <2>3. \A m \in Dm : dmRow[m].status \in {"skipped", "flagged"} =>
                         dmRow'[m].status \in {"skipped", "flagged"}
    BY <1>4
  <2> QED  BY <1>1, <1>2, <1>6, <2>2, <2>3, LedgerStays
<1>9. OfferedFirst'
  BY <1>2, <1>4 DEF OfferedFirst, SocialShape
<1> QED  BY <1>6, <1>7, <1>8, <1>9

(* The runner is done with a message, and wrote its row and the ledger.    *)
LEMMA LeaveKeepsSocial ==
  ASSUME SocialInv, NEW m \in Dm, Leave,
         UNCHANGED <<daemonVars, thread, receivedAt, replying, offered>>,
         dmRow' \in [Dm -> [status : DmStatus, retries : Nat]],
         \A o \in Dm \ {m} : dmRow'[o] = dmRow[o],
         dmRow'[m].status \in {dmRow[m].status, "error", "skipped", "flagged"},
         dmRow[m].status # "none" => dmRow'[m].status # "none",
         \/ seen' = seen /\ (\/ dmRow'[m].status = dmRow[m].status \/ m \in offered
                             \/ dmRow[m].status \notin {"skipped", "flagged"})
         \/ seen' = seen \cup {m} /\ (m \in offered \/ dmRow'[m].status \in {"skipped", "flagged"})
  PROVE  SocialInv'
<1> USE DEF SocialInv
<1>1. now \in 0 .. MaxNow /\ now' = now /\ restarts' = restarts /\ RunnerShape(runner)
  BY DEF SocialShape, DaemonTypes, daemonVars
<1>2. RunnerShape(runner)' /\ runner'.step = "take" /\ runner'.page = runner.page
  BY <1>1 DEF RunnerShape, Leave
<1>3. SocialShape'
  BY <1>1, <1>2 DEF SocialShape, DaemonTypes
<1>4. AtWork'
  BY <1>2, IdleRunner
<1>5. Ledgered'
  <2>1. \A o \in Dm : dmRow[o].status \in {"skipped", "flagged"} =>
                         dmRow'[o].status \in {"skipped", "flagged"} \/ o \in offered'
    OBVIOUS
  <2>2. \A o \in seen' \ seen : o \in offered' \/ dmRow'[o].status \in {"skipped", "flagged"}
    OBVIOUS
  <2>3. /\ now <= now' /\ offered' = offered /\ thread' = thread
        /\ \A o \in Dm : InThread(o) => receivedAt'[o] = receivedAt[o]
    BY <1>1
  <2>4. /\ offered \subseteq offered' /\ ToSet(thread) \subseteq ToSet(thread')
    BY <2>3
  <2> HIDE DEF SocialInv
  <2> QED  BY <1>3, <2>1, <2>2, <2>3, <2>4, LedgerStays
<1>6. OfferedFirst'
  BY DEF OfferedFirst, SocialShape
<1> QED  BY <1>3, <1>4, <1>5, <1>6

(* One message after the other.                                            *)
LEMMA HandlingKeepsSocial ==
  ASSUME SocialInv, NEW m \in Dm,
         \/ TakeUpDm(m) \/ FeedAgain(m) \/ ModelFails(m) \/ TriageUnread(m) \/ NotForReply(m)
         \/ ForReply(m) \/ DraftDm(m) \/ PostDm(m) \/ PostFails(m)
  PROVE  SocialInv'
<1> USE DEF SocialInv
<1>1. /\ now \in 0 .. MaxNow /\ dmRow \in [Dm -> [status : DmStatus, retries : Nat]]
      /\ RunnerShape(runner) /\ seen \subseteq Dm /\ offered \subseteq Dm
  BY DEF SocialShape, DaemonTypes
<1>2. ASSUME NEW status \in {"error", "flagged", "skipped"}, SetRow(m, status)
      PROVE  /\ dmRow' \in [Dm -> [status : DmStatus, retries : Nat]]
             /\ dmRow'[m].status = status /\ \A o \in Dm \ {m} : dmRow'[o] = dmRow[o]
  BY <1>1, <1>2 DEF SetRow, DmStatus
<1>3. CASE FeedAgain(m)
  <2>1. /\ Leave /\ UNCHANGED <<daemonVars, thread, receivedAt, replying, offered>>
    BY <1>3 DEF FeedAgain
  <2>2. CASE dmRow[m].status \notin {"none", "error"} /\ Ledger(m) /\ UNCHANGED dmRow
    <3>1. m \in offered \/ dmRow[m].status \in {"skipped", "flagged"}
      BY <1>1, <2>2 DEF OfferedFirst, DmStatus
    <3> QED  BY <1>1, <2>1, <2>2, <3>1, LeaveKeepsSocial DEF Ledger
  <2>3. CASE dmRow' = [dmRow EXCEPT ![m].retries = @ + 1] /\ UNCHANGED seen
    <3>1. /\ dmRow' \in [Dm -> [status : DmStatus, retries : Nat]]
          /\ dmRow'[m].status = dmRow[m].status /\ \A o \in Dm \ {m} : dmRow'[o] = dmRow[o]
      BY <1>1, <2>3
    <3> QED  BY <2>1, <2>3, <3>1, LeaveKeepsSocial
  <2>4. CASE SetRow(m, "flagged") /\ Ledger(m)
    BY <1>2, <2>1, <2>4, LeaveKeepsSocial DEF Ledger
  <2> QED  BY <1>3, <2>2, <2>3, <2>4 DEF FeedAgain
<1>4. CASE ModelFails(m)
  BY <1>1, <1>4, LeaveKeepsSocial DEF ModelFails
<1>5. CASE TriageUnread(m)
  <2>1. dmRow[m].status = "none"
    BY <1>5 DEF TriageUnread, Triaged, AtWork
  <2> QED  BY <1>2, <1>5, <2>1, LeaveKeepsSocial DEF TriageUnread
<1>6. CASE NotForReply(m)
  BY <1>2, <1>6, LeaveKeepsSocial DEF NotForReply, Ledger
<1>7. CASE PostDm(m) \/ PostFails(m)
  <2>1. m \in offered
    BY <1>7 DEF PostDm, PostFails, AtWork
  <2>2. CASE PostDm(m)
    BY <1>1, <2>1, <2>2, LeaveKeepsSocial DEF PostDm, Ledger
  <2>3. CASE PostFails(m)
    BY <1>2, <2>1, <2>3, LeaveKeepsSocial DEF PostFails
  <2> QED  BY <1>7, <2>2, <2>3
<1>8. CASE TakeUpDm(m) \/ ForReply(m)
  <2>1. PICK step \in {"triage", "draft"} : Go(step)
    BY <1>8 DEF TakeUpDm, ForReply
  <2>2. /\ dmRow[m].status = "none" /\ Handling(m)
        /\ UNCHANGED <<now, restarts, thread, receivedAt, seen, dmRow, replying, offered>>
    BY <1>8 DEF TakeUpDm, ForReply, Triaged, NoRow, daemonVars, AtWork
  <2>3. /\ RunnerShape(runner)' /\ runner'.step = step /\ runner'.page = runner.page
        /\ runner'.items = runner.items
    BY <1>1, <2>1 DEF RunnerShape, Go
  <2>4. SocialShape'
    BY <2>2, <2>3 DEF SocialShape, DaemonTypes
  <2>5. AtWork'
    BY <2>2, <2>3 DEF AtWork, OnStep, Handling
  <2>6. Ledgered'
    BY <1>1, <2>2, <2>4, LedgerStays
  <2> QED  BY <2>2, <2>4, <2>5, <2>6 DEF OfferedFirst
<1>9. CASE DraftDm(m)
  <2>1. /\ dmRow' = [dmRow EXCEPT ![m].status = "pending"] /\ offered' = offered \cup {m}
        /\ Handling(m) /\ Go("post")
        /\ UNCHANGED <<now, restarts, thread, receivedAt, seen, replying>>
    BY <1>9 DEF DraftDm, SetRow, daemonVars
  <2>2. /\ dmRow' \in [Dm -> [status : DmStatus, retries : Nat]]
        /\ dmRow'[m].status = "pending" /\ \A o \in Dm \ {m} : dmRow'[o] = dmRow[o]
    BY <1>1, <2>1 DEF DmStatus
  <2>3. /\ RunnerShape(runner)' /\ runner'.step = "post" /\ runner'.page = runner.page
        /\ runner'.items = runner.items
    BY <1>1, <2>1 DEF RunnerShape, Go
  <2>4. SocialShape'
    BY <1>1, <2>1, <2>2, <2>3 DEF SocialShape, DaemonTypes
  <2>5. AtWork'
    BY <2>1, <2>3 DEF AtWork, OnStep, Handling
  <2>6. Ledgered'
    <3>1. \A o \in Dm : dmRow[o].status \in {"skipped", "flagged"} =>
                         dmRow'[o].status \in {"skipped", "flagged"} \/ o \in offered'
      BY <2>1, <2>2
    <3> QED  BY <1>1, <2>1, <2>4, <3>1, LedgerStays
  <2>7. OfferedFirst'
    BY <2>1, <2>2 DEF OfferedFirst, SocialShape
  <2> QED  BY <2>4, <2>5, <2>6, <2>7
<1> QED  BY <1>3, <1>4, <1>5, <1>6, <1>7, <1>8, <1>9

(* The service starts with an empty conversation and an empty ledger.      *)
LEMMA InitSocial == DaemonInit /\ SocialInit => SocialInv
<1> SUFFICES ASSUME DaemonInit, SocialInit  PROVE SocialInv
  OBVIOUS
<1>1. SocialShape
  <2>1. /\ <<>> \in Seq(Dm \cup {Ours}) /\ ToSet(<<>>) = {} /\ 0 \in 0 .. MaxNow
        /\ NoRow \in [status : DmStatus, retries : Nat] /\ 0 \in 0 .. MaxRestarts
    BY DaemonAssumption DEF ToSet, NoRow, DmStatus
  <2>2. RunnerShape(NoTick) /\ NoTick.page = <<>>
    BY DEF RunnerShape, NoTick
  <2> QED  BY <2>1, <2>2 DEF DaemonInit, SocialInit, SocialShape, DaemonTypes
<1>2. \A m \in Dm : dmRow[m].status = "none"
  BY DEF SocialInit, NoRow
<1> QED  BY <1>1, <1>2 DEF SocialInit, SocialInv, OfferedFirst, AtWork, Ledgered, Handling, NoTick

(* Every step of the service keeps the ledger in sight.                    *)
LEMMA StepSocial ==
  ASSUME SocialInv, [SocialNext]_allSocialVars
  PROVE  SocialInv'
<1>1. CASE \/ TakeEvents \/ Drained \/ ListMessages \/ ListFails \/ FetchOver \/ SocialRestarts
           \/ \E m \in Dm : DrainEvent(m)
  BY <1>1, FetchKeepsSocial
<1>2. CASE WalkTail
  BY <1>2, WalkKeepsSocial
<1>3. CASE \E m \in Dm :
              \/ TakeUpDm(m) \/ FeedAgain(m) \/ ModelFails(m) \/ TriageUnread(m) \/ NotForReply(m)
              \/ ForReply(m) \/ DraftDm(m) \/ PostDm(m) \/ PostFails(m)
  BY <1>3, HandlingKeepsSocial
<1>4. CASE \/ \E m \in Dm : \/ Receive(m) \/ Push(m) \/ ApproveDm(m) \/ DmSent(m) \/ DmNotSent(m)
                         \/ SkipDm(m)
           \/ OwnerAnswers \/ (Tick /\ UNCHANGED socialVars) \/ UNCHANGED allSocialVars
  BY <1>4, OthersKeepSocial
<1> QED  BY <1>1, <1>2, <1>3, <1>4 DEF SocialNext, RunnerStep

(* However long the conversation, whatever is pushed, fails or restarts: a *)
(* message is only in the ledger when its draft was offered, the filter    *)
(* set it aside, its retries ended in a flag, or it is too old to answer.  *)
THEOREM TheLedgerIsInSight == SocialSpec => []SettledInSight
<1>1. SocialInv /\ [SocialNext]_allSocialVars => SocialInv'
  BY StepSocial
<1>2. SocialInv => SettledInSight
  BY DEF SocialInv, Ledgered, SettledInSight
<1> QED  BY InitSocial, <1>1, <1>2, PTL DEF SocialSpec

(* What the ledger does not depend on: the webhook's table, the retries,   *)
(* the failures counted, and that the runner's messages are messages.      *)
SocialRest ==
    /\ event \in [Dm -> {"none", "queued", "processed"}]
    /\ \A m \in Dm : dmRow[m].retries \in 0 .. TriageRetries
    /\ hitches \in 0 .. MaxHitches
    /\ runner.items \in Seq(Dm)

\* An event is queued by a push and processed by a drain.
LEMMA EventsKeepTypes ==
  ASSUME SocialRest, [SocialNext]_allSocialVars
  PROVE  event' \in [Dm -> {"none", "queued", "processed"}]
<1>1. \/ UNCHANGED event
      \/ \E m \in Dm : event' = [event EXCEPT ![m] = "queued"]
      \/ \E m \in Dm : event' = [event EXCEPT ![m] = "processed"]
  <2>1. ASSUME RunnerStep
        PROVE  UNCHANGED event \/ \E m \in Dm : event' = [event EXCEPT ![m] = "processed"]
    BY <2>1 DEF RunnerStep, TakeEvents, Drained, ListMessages, WalkTail, FetchOver, DrainEvent,
                TakeUpDm, FeedAgain, NotForReply, ForReply, DraftDm, PostDm
  <2>2. ASSUME NEW m \in Dm,
               \/ Receive(m) \/ Push(m) \/ ApproveDm(m) \/ DmSent(m) \/ DmNotSent(m) \/ SkipDm(m)
               \/ ModelFails(m) \/ TriageUnread(m) \/ PostFails(m)
        PROVE  UNCHANGED event \/ event' = [event EXCEPT ![m] = "queued"]
    BY <2>2 DEF Receive, Push, ApproveDm, DmSent, DmNotSent, SkipDm, ModelFails, TriageUnread,
                PostFails
  <2>3. ASSUME \/ OwnerAnswers \/ ListFails \/ SocialRestarts \/ (Tick /\ UNCHANGED socialVars)
               \/ UNCHANGED allSocialVars
        PROVE  UNCHANGED event
    BY <2>3 DEF OwnerAnswers, ListFails, SocialRestarts, socialVars, allSocialVars
  <2> QED  BY <2>1, <2>2, <2>3 DEF SocialNext
<1> QED  BY <1>1 DEF SocialRest

\* Failures are counted up to their bound.
LEMMA HitchesKeepTypes ==
  ASSUME SocialRest, [SocialNext]_allSocialVars
  PROVE  hitches' \in 0 .. MaxHitches
<1>1. UNCHANGED hitches \/ Hitch
  <2>1. RunnerStep => UNCHANGED hitches
    BY DEF RunnerStep, TakeEvents, Drained, ListMessages, WalkTail, FetchOver, DrainEvent,
           TakeUpDm, FeedAgain, NotForReply, ForReply, DraftDm, PostDm
  <2>2. ASSUME NEW m \in Dm,
               \/ Receive(m) \/ Push(m) \/ ApproveDm(m) \/ DmSent(m) \/ DmNotSent(m) \/ SkipDm(m)
               \/ ModelFails(m) \/ TriageUnread(m) \/ PostFails(m)
        PROVE  UNCHANGED hitches \/ Hitch
    BY <2>2 DEF Receive, Push, ApproveDm, DmSent, DmNotSent, SkipDm, ModelFails, TriageUnread,
                PostFails
  <2>3. ASSUME \/ OwnerAnswers \/ ListFails \/ SocialRestarts \/ (Tick /\ UNCHANGED socialVars)
               \/ UNCHANGED allSocialVars
        PROVE  UNCHANGED hitches \/ Hitch
    BY <2>3 DEF OwnerAnswers, ListFails, SocialRestarts, socialVars, allSocialVars
  <2> QED  BY <2>1, <2>2, <2>3 DEF SocialNext
<1> QED  BY <1>1, SocialAssumption DEF Hitch, SocialRest

\* Only a retry counts retries, and only below its bound.
LEMMA RetriesKeepTypes ==
  ASSUME SocialShape, SocialRest, [SocialNext]_allSocialVars
  PROVE  \A o \in Dm : dmRow'[o].retries \in 0 .. TriageRetries
<1>0. dmRow \in [Dm -> [status : DmStatus, retries : Nat]] /\ TriageRetries \in Nat
  BY SocialAssumption DEF SocialShape
<1>1. ASSUME NEW m \in Dm, NEW status, SetRow(m, status)
      PROVE  \A o \in Dm : dmRow'[o].retries = dmRow[o].retries
  BY <1>0, <1>1 DEF SetRow
<1>2. ASSUME NEW m \in Dm, FeedAgain(m)
      PROVE  \A o \in Dm : dmRow'[o].retries \in 0 .. TriageRetries
  <2>1. ASSUME dmRow[m].retries < TriageRetries, dmRow' = [dmRow EXCEPT ![m].retries = @ + 1]
        PROVE  \A o \in Dm : dmRow'[o].retries \in 0 .. TriageRetries
    <3>1. dmRow'[m].retries = dmRow[m].retries + 1 /\ \A o \in Dm \ {m} : dmRow'[o] = dmRow[o]
      BY <1>0, <2>1
    <3>2. dmRow[m].retries + 1 \in 0 .. TriageRetries
      BY <1>0, <2>1 DEF SocialRest
    <3> QED  BY <3>1, <3>2 DEF SocialRest
  <2> QED  BY <1>1, <1>2, <2>1 DEF FeedAgain, SocialRest
<1>3. ASSUME WalkTail  PROVE \A o \in Dm : dmRow'[o].retries = dmRow[o].retries
  <2>1. dmRow' = SupersedeThread(runner.page)
    BY <1>3 DEF WalkTail
  <2> QED  BY <1>0, <2>1 DEF SupersedeThread
<1>4. ASSUME NEW m \in Dm, DmSent(m) \/ DmNotSent(m) \/ SkipDm(m) \/ TriageUnread(m) \/ PostFails(m)
                           \/ NotForReply(m) \/ DraftDm(m)
      PROVE  \A o \in Dm : dmRow'[o].retries = dmRow[o].retries
  BY <1>1, <1>4 DEF DmSent, DmNotSent, SkipDm, TriageUnread, PostFails, NotForReply, DraftDm
<1>5. ASSUME \/ TakeEvents \/ Drained \/ ListMessages \/ FetchOver \/ OwnerAnswers \/ ListFails
             \/ SocialRestarts \/ (Tick /\ UNCHANGED socialVars) \/ UNCHANGED allSocialVars
             \/ \E m \in Dm : DrainEvent(m) \/ TakeUpDm(m) \/ ForReply(m) \/ PostDm(m) \/ Receive(m)
                              \/ Push(m) \/ ApproveDm(m) \/ ModelFails(m)
      PROVE  dmRow' = dmRow
  BY <1>5 DEF TakeEvents, Drained, ListMessages, FetchOver, OwnerAnswers, ListFails,
              SocialRestarts, socialVars, allSocialVars, DrainEvent, TakeUpDm, ForReply, PostDm,
              Receive, Push, ApproveDm, ModelFails
<1> QED  BY <1>2, <1>3, <1>4, <1>5 DEF SocialNext, RunnerStep, SocialRest

\* Messages of a page, oldest first, are a sequence of them.
LEMMA OldestFirstTypes ==
  ASSUME NEW page \in Seq(Dm \cup {Ours}), NEW msgs \in SUBSET Dm, msgs \subseteq ToSet(page),
         NEW s \in OldestFirst(page, msgs)
  PROVE  s \in Seq(Dm)
<1>1. IsFiniteSet(msgs)
  <2>1. IsFiniteSet(DOMAIN page)
    BY FS_Interval, DOMAIN page = 1 .. Len(page), Len(page) \in Nat
  <2>2. page \in Surjection(DOMAIN page, ToSet(page))
    BY DEF Surjection, ToSet
  <2>3. IsFiniteSet(ToSet(page))
    BY <2>1, <2>2, FS_Surjection
  <2> QED  BY <2>3, FS_Subset
<1>2. Cardinality(msgs) \in Nat
  BY <1>1, FS_CardinalityType
<1>3. s \in [1 .. Cardinality(msgs) -> msgs]
  BY DEF OldestFirst
<1>4. s \in [1 .. Cardinality(msgs) -> Dm]
  BY <1>3
<1> QED  BY <1>2, <1>4

\* What the runner has to handle are messages, however they came.
LEMMA ItemsKeepTypes ==
  ASSUME SocialShape, SocialRest, [SocialNext]_allSocialVars
  PROVE  runner'.items \in Seq(Dm)
<1>0. runner.items \in Seq(Dm) /\ runner.page \in Seq(Dm \cup {Ours}) /\ RunnerShape(runner)
  BY DEF SocialShape, SocialRest
<1>1. ASSUME NEW m \in Dm, DrainEvent(m)  PROVE runner'.items \in Seq(Dm)
  <2>1. runner'.items = runner.items \/ runner'.items = Append(runner.items, m)
    BY <1>0, <1>1 DEF DrainEvent, RunnerShape
  <2>2. Append(runner.items, m) \in Seq(Dm)
    BY <1>0, Appended
  <2> QED  BY <1>0, <2>1, <2>2
<1>2. ASSUME WalkTail  PROVE runner'.items \in Seq(Dm)
  <2> DEFINE fed == {m \in (UnansweredIn(runner.page) \ ToSet(runner.items)) \ seen : ~Stale(m)}
             room == PerTick - Len(runner.items)
  <2>1. PICK fresh \in OldestFirst(runner.page, fed) :
           runner' = [runner EXCEPT !.step = "take", !.page = <<>>,
                                    !.items = @ \o SubSeq(fresh, 1, IF Len(fresh) < room THEN Len(fresh)
                                                                                         ELSE room)]
    BY <1>2 DEF WalkTail
  <2>2. fed \subseteq Dm /\ fed \subseteq ToSet(runner.page)
    BY <1>0, TailIsIncoming
  <2> HIDE DEF fed
  <2>3. fresh \in Seq(Dm)
    BY <1>0, <2>2, OldestFirstTypes
  <2> DEFINE n == IF Len(fresh) < room THEN Len(fresh) ELSE room
  <2>4. n \in Int /\ n <= Len(fresh)
    BY <1>0, <2>3, SocialAssumption
  <2>5. runner'.items = runner.items \o SubSeq(fresh, 1, n)
    BY <1>0, <2>1 DEF RunnerShape
  <2> HIDE DEF n
  <2>6. SubSeq(fresh, 1, n) \in Seq(Dm)
    BY <2>3, <2>4
  <2> QED  BY <1>0, <2>5, <2>6
<1>3. ASSUME NEW m \in Dm,
             \/ FeedAgain(m) \/ NotForReply(m) \/ PostDm(m) \/ ModelFails(m) \/ TriageUnread(m)
             \/ PostFails(m)
      PROVE  runner'.items \in Seq(Dm)
  <2>1. Leave /\ Handling(m)
    BY <1>3 DEF FeedAgain, NotForReply, PostDm, ModelFails, TriageUnread, PostFails, Triaged
  <2>2. runner'.items = Tail(runner.items) /\ runner.items # <<>>
    BY <1>0, <2>1 DEF Leave, Handling, RunnerShape
  <2> QED  BY <1>0, <2>2
<1>4. ASSUME TakeEvents \/ FetchOver \/ SocialRestarts  PROVE runner'.items = <<>>
  <2>1. NoTick.items = <<>>
    BY DEF NoTick
  <2>2. ASSUME NEW set, runner' = [NoTick EXCEPT !.step = "drain", !.events = set]
        PROVE  runner'.items = <<>>
    BY <2>2 DEF NoTick
  <2> QED  BY <1>4, <2>1, <2>2 DEF TakeEvents, FetchOver, SocialRestarts
<1>5. ASSUME \/ Drained \/ ListMessages \/ OwnerAnswers \/ ListFails
             \/ (Tick /\ UNCHANGED socialVars) \/ UNCHANGED allSocialVars
             \/ \E m \in Dm : \/ TakeUpDm(m) \/ ForReply(m) \/ DraftDm(m) \/ Receive(m) \/ Push(m)
                              \/ ApproveDm(m) \/ DmSent(m) \/ DmNotSent(m) \/ SkipDm(m)
      PROVE  runner'.items = runner.items
  BY <1>0, <1>5 DEF Drained, ListMessages, OwnerAnswers, ListFails, socialVars, allSocialVars,
              TakeUpDm, ForReply, DraftDm, Receive, Push, ApproveDm, DmSent, DmNotSent, SkipDm,
              Go, RunnerShape
<1>6. <<>> \in Seq(Dm)
  OBVIOUS
<1> QED  BY <1>0, <1>1, <1>2, <1>3, <1>4, <1>5, <1>6 DEF SocialNext, RunnerStep

LEMMA StepSocialRest ==
  ASSUME SocialShape, SocialRest, [SocialNext]_allSocialVars  PROVE SocialRest'
  BY EventsKeepTypes, HitchesKeepTypes, RetriesKeepTypes, ItemsKeepTypes DEF SocialRest

LEMMA InitSocialRest == SocialInit => SocialRest
  BY SocialAssumption DEF SocialInit, SocialRest, NoRow, NoTick

LEMMA SocialInvTypes == SocialInv /\ SocialRest => SocialTypes
<1> SUFFICES ASSUME SocialShape, SocialRest  PROVE SocialTypes
  BY DEF SocialInv
<1>1. \A i \in DOMAIN thread : thread[i] \in Dm \cup {Ours}
  BY DEF SocialShape
<1>2. \A i \in DOMAIN runner.items : runner.items[i] \in Dm
  BY DEF SocialRest
<1>3. dmRow \in [Dm -> [status : DmStatus, retries : 0 .. TriageRetries]]
  BY DEF SocialShape, SocialRest
<1>4. runner.events \subseteq Dm
       /\ runner.step \in {"rest", "drain", "ask", "walk", "take", "triage", "draft", "post"}
  BY DEF SocialShape, RunnerShape
<1> QED  BY <1>1, <1>2, <1>3, <1>4 DEF SocialShape, SocialRest, SocialTypes, DmStatus

(* The conversation, the webhook's table, the rows and the runner's        *)
(* messages keep their types, however long the conversation.               *)
THEOREM SocialTypesHold == SocialSpec => []SocialTypes
<1>1. SocialInv /\ SocialRest /\ [SocialNext]_allSocialVars => SocialInv' /\ SocialRest'
  BY StepSocial, StepSocialRest DEF SocialInv
<1>2. DaemonInit /\ SocialInit => SocialInv /\ SocialRest
  BY InitSocial, InitSocialRest
<1> QED  BY <1>1, <1>2, SocialInvTypes, PTL DEF SocialSpec

-----------------------------------------------------------------------------
(* The mail: the rows, the two tasks and how they fit together.            *)

MailRow ==
    [mail : Mail, status : Open \cup {"skipped", "flagged", "superseded", "permanent_error",
                                      "sent", "rejected"},
     drafted : BOOLEAN, draftId : BOOLEAN, retries : 0 .. MaxAttempts,
     born : 0 .. MaxNow, touched : 0 .. MaxNow, shown : Nat, drafts : Nat, lost : Nat]

WorkRow ==
    [step : {"rest", "triage", "program", "repair", "classic", "report", "envelope", "draft",
             "card"},
     mail : Mail \cup {NoMail}, row : 0 .. MaxRows, todo : SUBSET Row]

(* A task w that holds a row holds one of its mail; until the envelope is  *)
(* read it has no draft; one that failed in its hands has.  What the retry *)
(* tick listed can still be retried.                                       *)
Placed(w, rs) ==
    /\ w.step # "rest" => w.mail \in Mail
    /\ w.step \in {"rest", "triage", "classic"} => w.row = 0
    /\ w.step \in {"report", "envelope", "draft", "card"} => w.row # 0
    /\ w.row # 0 =>
          /\ w.row \in DOMAIN rs
          /\ rs[w.row].mail = w.mail
          /\ w.step \in {"program", "repair", "report", "draft"} => ~rs[w.row].draftId
          /\ rs[w.row].status = "error" => rs[w.row].draftId
    /\ \A r \in w.todo :
          r \in DOMAIN rs /\ rs[r].status = "error" /\ rs[r].retries < MaxAttempts

(* A row in two hands has its draft.                                       *)
Shared ==
    \A t, u \in Task : t # u /\ tasks[t].row = tasks[u].row /\ tasks[t].row # 0
        => rows[tasks[t].row].draftId

(* A row has the draft its id names, and those whose answer was lost.      *)
Drawn(x) ==
    /\ ~x.draftId => x.drafts <= x.lost
    /\ x.draftId => x.drafts <= 1 + x.lost

Sides ==
    /\ DaemonTypes
    /\ finished \subseteq Mail
    /\ mishaps \in 0 .. MaxMishaps
    /\ strays \in [Mail -> Nat]
    /\ crossings \in [Mail -> Nat]
    /\ answers \in [Mail -> Nat]
    /\ skipping \subseteq DOMAIN rows

Tidy ==
    /\ rows \in Seq(MailRow) /\ Len(rows) <= MaxRows
    /\ tasks \in [Task -> WorkRow] /\ tasks["poll"].todo = {}
    /\ \A t \in Task : Placed(tasks[t], rows)
    /\ Shared
    /\ \A r \in DOMAIN rows : Drawn(rows[r])

(* What may still answer a mail: the rows that are on a card, may be       *)
(* retried (k attempts in all) or are in a task's hands, and the tasks     *)
(* that have no row yet.                                                   *)
Live(rs, ts, m, k) ==
    {r \in DOMAIN rs : /\ rs[r].mail = m
                       /\ \/ rs[r].status = "pending"
                          \/ rs[r].status = "error" /\ rs[r].retries < k
                          \/ \E t \in Task : ts[t].row = r}

Early(ts, m) == {t \in Task : ts[t].mail = m /\ ts[t].step # "rest" /\ ts[t].row = 0}

Weight(rs, ts, m, k) == Cardinality(Live(rs, ts, m, k)) + Cardinality(Early(ts, m))

(* A row that failed for good.                                             *)
Dead(x) == x.status = "error" /\ x.retries >= MaxAttempts

(* No mail is taken up again.                                              *)
Over(m) == m \in finished \/ \E r \in DOMAIN rows : rows[r].mail = m /\ Dead(rows[r])

Even(high, low, out, extra, crossed, over) ==
    /\ high <= 1 + extra
    /\ out + low <= 1 + extra + crossed
    /\ out > extra + crossed => over

Balanced(m) ==
    Even(Weight(rows, tasks, m, MaxAttempts + 1), Weight(rows, tasks, m, MaxAttempts),
         answers[m], strays[m], crossings[m], Over(m))

IntakeInv == Sides /\ Tidy /\ \A m \in Mail : Balanced(m)

-----------------------------------------------------------------------------
(* Weights. *)

\* A set gains at most the element it is given.
LEMMA OneMore ==
  ASSUME NEW S, IsFiniteSet(S), NEW x, NEW T, T \subseteq S \cup {x}
  PROVE  /\ IsFiniteSet(T) /\ Cardinality(T) \in Nat /\ Cardinality(S) \in Nat
         /\ Cardinality(T) <= Cardinality(S) + 1
<1>1. IsFiniteSet(S \cup {x}) /\ Cardinality(S \cup {x}) <= Cardinality(S) + 1
      /\ Cardinality(S) \in Nat
  BY FS_AddElement, FS_CardinalityType
<1>2. IsFiniteSet(T) /\ Cardinality(T) <= Cardinality(S \cup {x}) /\ Cardinality(T) \in Nat
  BY <1>1, FS_Subset, FS_CardinalityType
<1>3. Cardinality(S \cup {x}) \in Nat
  BY <1>1, FS_CardinalityType
<1> QED  BY <1>1, <1>2, <1>3

\* And loses at least the element that is taken from it.
LEMMA OneLess ==
  ASSUME NEW S, IsFiniteSet(S), NEW x \in S, NEW T, T \subseteq S \ {x}
  PROVE  /\ IsFiniteSet(T) /\ Cardinality(T) \in Nat /\ Cardinality(S) \in Nat
         /\ Cardinality(T) <= Cardinality(S) - 1
<1>1. IsFiniteSet(S \ {x}) /\ Cardinality(S \ {x}) = Cardinality(S) - 1
      /\ Cardinality(S) \in Nat
  BY FS_RemoveElement, FS_CardinalityType
<1>2. IsFiniteSet(T) /\ Cardinality(T) <= Cardinality(S \ {x}) /\ Cardinality(T) \in Nat
  BY <1>1, FS_Subset, FS_CardinalityType
<1> QED  BY <1>1, <1>2

\* The rows and the tasks are finitely many.
LEMMA Finite ==
  ASSUME NEW rs \in Seq(MailRow), NEW ts, NEW m, NEW k
  PROVE  /\ IsFiniteSet(Live(rs, ts, m, k)) /\ IsFiniteSet(Early(ts, m))
         /\ Cardinality(Live(rs, ts, m, k)) \in Nat /\ Cardinality(Early(ts, m)) \in Nat
         /\ Weight(rs, ts, m, k) \in Nat
<1>1. Live(rs, ts, m, k) \subseteq 1 .. Len(rs) /\ Len(rs) \in Nat
  BY DEF Live
<1>2. IsFiniteSet(1 .. Len(rs))
  BY <1>1, FS_Interval
<1>3. IsFiniteSet(Live(rs, ts, m, k))
  BY <1>1, <1>2, FS_Subset
<1>4. IsFiniteSet(Task)
  <2>1. IsFiniteSet({} \cup {"poll"})
    BY FS_EmptySet, FS_AddElement
  <2>2. IsFiniteSet(({} \cup {"poll"}) \cup {"retry"})
    BY <2>1, FS_AddElement
  <2> QED  BY <2>2 DEF Task
<1>5. Early(ts, m) \subseteq Task
  BY DEF Early
<1>6. IsFiniteSet(Early(ts, m))
  BY <1>4, <1>5, FS_Subset
<1>7. Cardinality(Live(rs, ts, m, k)) \in Nat /\ Cardinality(Early(ts, m)) \in Nat
  BY <1>3, <1>6, FS_CardinalityType
<1> QED  BY <1>3, <1>6, <1>7 DEF Weight

\* What weighs no more than before, or is excused, keeps a mail even.
LEMMA StaysEven ==
  ASSUME NEW high \in Nat, NEW low \in Nat, NEW out \in Nat, NEW extra \in Nat,
         NEW crossed \in Nat, NEW over, Even(high, low, out, extra, crossed, over),
         NEW high2 \in Nat, NEW low2 \in Nat, NEW extra2 \in Nat, NEW crossed2 \in Nat, NEW over2,
         extra <= extra2, crossed <= crossed2, over => over2,
         high2 <= high + (extra2 - extra), low2 <= low + (extra2 - extra)
  PROVE  Even(high2, low2, out, extra2, crossed2, over2)
<1>1. high2 <= 1 + extra2
  BY DEF Even
<1>2. out + low2 <= 1 + extra2 + crossed2
  BY DEF Even
<1>3. out > extra2 + crossed2 => over2
  BY DEF Even
<1> QED  BY <1>1, <1>2, <1>3 DEF Even

-----------------------------------------------------------------------------
(* Steps: one row becomes x, one task becomes w.                           *)

RowIs(r, x) ==
    /\ rows' \in Seq(MailRow) /\ Len(rows') = Len(rows)
    /\ \A s \in DOMAIN rows : rows'[s] = IF s = r THEN x ELSE rows[s]

RowAdded(x) ==
    /\ rows' \in Seq(MailRow) /\ Len(rows') = Len(rows) + 1 /\ Len(rows') <= MaxRows
    /\ \A s \in DOMAIN rows : rows'[s] = rows[s]
    /\ rows'[Len(rows) + 1] = x

TaskIs(t, w) ==
    /\ tasks' \in [Task -> WorkRow]
    /\ \A u \in Task : tasks'[u] = IF u = t THEN w ELSE tasks[u]

\* A row that is written keeps the table a table.
LEMMA Rewritten ==
  ASSUME Tidy, NEW r \in DOMAIN rows, NEW x \in MailRow, rows' = [rows EXCEPT ![r] = x]
  PROVE  RowIs(r, x)
  BY DEF Tidy, RowIs

\* So does a row that is inserted.
LEMMA Inserted ==
  ASSUME Tidy, NEW x \in MailRow, Insert(x)
  PROVE  RowAdded(x)
<1>1. rows \in Seq(MailRow) /\ Len(rows) \in Nat /\ MaxRows \in Nat
  BY IntakeAssumption DEF Tidy
<1>2. rows' = Append(rows, x) /\ Len(rows) < MaxRows
  BY DEF Insert
<1>3. rows' \in Seq(MailRow) /\ Len(rows') = Len(rows) + 1
  BY <1>1, <1>2
<1>4. rows'[Len(rows) + 1] = x /\ \A s \in 1 .. Len(rows) : rows'[s] = rows[s]
  BY <1>1, <1>2
<1> QED  BY <1>1, <1>2, <1>3, <1>4 DEF RowAdded

\* And a task that moves.
LEMMA Moved ==
  ASSUME Tidy, NEW t \in Task, NEW w \in WorkRow, tasks' = [tasks EXCEPT ![t] = w]
  PROVE  TaskIs(t, w)
  BY DEF Tidy, TaskIs

\* A task that moves on over the same rows fits as before.
LEMMA MovesFit ==
  ASSUME Tidy, NEW t \in Task, NEW w \in WorkRow, TaskIs(t, w), UNCHANGED rows,
         Placed(w, rows), t = "poll" => w.todo = {}, w.row \in {0, tasks[t].row}
  PROVE  Tidy'
<1>1. rows' \in Seq(MailRow) /\ Len(rows') <= MaxRows /\ \A r \in DOMAIN rows' : Drawn(rows'[r])
  BY DEF Tidy
<1>2. tasks' \in [Task -> WorkRow] /\ tasks'["poll"].todo = {}
  BY DEF Tidy, TaskIs, Task
<1>3. \A u \in Task : Placed(tasks'[u], rows')
  BY DEF Tidy, TaskIs
<1>4. Shared'
  BY DEF Tidy, TaskIs, Shared
<1> QED  BY <1>1, <1>2, <1>3, <1>4 DEF Tidy

\* A row that is written fits the tasks that hold or list it, if it keeps its
\* mail and its draft, and changes under no other task's hands.
LEMMA WritesFit ==
  ASSUME Tidy, NEW t \in Task, NEW w \in WorkRow, TaskIs(t, w),
         NEW r \in DOMAIN rows, NEW x \in MailRow, RowIs(r, x),
         x.mail = rows[r].mail, rows[r].draftId => x.draftId, Drawn(x),
         \/ tasks[t].row = r
         \/ x.draftId = rows[r].draftId /\ (x.status = "error" => x.draftId \/ rows[r].status = "error"),
         \/ r \notin tasks["retry"].todo
         \/ t = "retry" /\ r \notin w.todo
         \/ x.status = "error" /\ x.retries < MaxAttempts,
         Placed(w, rows'), t = "poll" => w.todo = {},
         \/ w.row \in {0, tasks[t].row}
         \/ w.row = r /\ rows[r].status = "error"
  PROVE  Tidy'
<1>1. DOMAIN rows' = DOMAIN rows /\ DOMAIN rows = 1 .. Len(rows) /\ Len(rows') <= MaxRows
  BY DEF Tidy, RowIs
<1>2. \A s \in DOMAIN rows' : Drawn(rows'[s])
  BY <1>1 DEF Tidy, RowIs
<1>3. tasks' \in [Task -> WorkRow] /\ tasks'["poll"].todo = {}
  BY DEF Tidy, TaskIs, Task
<1>4. \A u \in Task : Placed(tasks[u], rows) /\ tasks[u] \in WorkRow
  BY DEF Tidy
<1>5. ASSUME NEW u \in Task, u # t  PROVE Placed(tasks[u], rows')
  <2> DEFINE v == tasks[u]
  <2>1. Placed(v, rows) /\ v \in WorkRow
    BY <1>4
  <2>2. v.row # 0 => v.row \in DOMAIN rows' /\ rows'[v.row].mail = v.mail
    BY <1>1, <2>1 DEF Placed, RowIs
  <2>3. ASSUME v.row # 0, v.step \in {"program", "repair", "report", "draft"}
        PROVE  ~rows'[v.row].draftId
    <3>1. ~rows[v.row].draftId /\ v.row \in DOMAIN rows
      BY <2>1, <2>3 DEF Placed
    <3>2. CASE v.row = r
      <4>1. tasks[t].row # r
        BY <1>5, <2>3, <3>1, <3>2 DEF Tidy, Shared
      <4> QED  BY <3>1, <3>2, <4>1 DEF RowIs
    <3> QED  BY <3>1, <3>2 DEF RowIs
  <2>4. ASSUME v.row # 0, rows'[v.row].status = "error"
        PROVE  rows'[v.row].draftId
    <3>1. v.row \in DOMAIN rows /\ (rows[v.row].status = "error" => rows[v.row].draftId)
      BY <2>1, <2>4 DEF Placed
    <3>2. CASE v.row = r
      <4>1. tasks[t].row = r => rows[r].draftId
        BY <1>5, <2>4, <3>2 DEF Tidy, Shared
      <4> QED  BY <2>4, <3>1, <3>2, <4>1 DEF RowIs
    <3> QED  BY <2>4, <3>1, <3>2 DEF RowIs
  <2>5. \A s \in v.todo : s \in DOMAIN rows' /\ rows'[s].status = "error" /\ rows'[s].retries < MaxAttempts
    <3>1. u = "poll" => v.todo = {}
      BY DEF Tidy
    <3>2. u = "poll" \/ u = "retry"
      BY DEF Task
    <3>3. \A s \in v.todo : s \in DOMAIN rows /\ rows[s].status = "error" /\ rows[s].retries < MaxAttempts
      BY <2>1 DEF Placed
    <3> QED  BY <1>1, <1>5, <3>1, <3>2, <3>3 DEF RowIs
  <2> QED  BY <2>1, <2>2, <2>3, <2>4, <2>5 DEF Placed
<1>6. \A u \in Task : Placed(tasks'[u], rows')
  BY <1>5 DEF TaskIs
<1>7. Shared'
  <2> SUFFICES ASSUME NEW u \in Task, NEW v \in Task, u # v, tasks'[u].row = tasks'[v].row,
                      tasks'[u].row # 0
               PROVE  rows'[tasks'[u].row].draftId
    BY DEF Shared
  <2>1. ASSUME NEW o \in Task, o # t, tasks[o].row = w.row, w.row # 0
        PROVE  rows[w.row].draftId /\ w.row \in DOMAIN rows
    <3>1. w.row \in DOMAIN rows
      BY <1>4, <2>1 DEF Placed
    <3>2. CASE w.row = tasks[t].row
      BY <2>1, <3>1, <3>2 DEF Tidy, Shared
    <3>3. CASE w.row = r /\ rows[r].status = "error"
      BY <1>4, <2>1, <3>1, <3>3 DEF Placed
    <3> QED  BY <2>1, <3>1, <3>2, <3>3
  <2>2. \A s \in DOMAIN rows : rows[s].draftId => rows'[s].draftId
    BY DEF RowIs
  <2>3. CASE u = t
    BY <2>1, <2>2, <2>3 DEF TaskIs
  <2>4. CASE v = t
    BY <2>1, <2>2, <2>4 DEF TaskIs
  <2>5. CASE u # t /\ v # t
    BY <1>4, <2>2, <2>5 DEF TaskIs, Tidy, Shared, Placed
  <2> QED  BY <2>3, <2>4, <2>5
<1> QED  BY <1>1, <1>2, <1>3, <1>6, <1>7 DEF Tidy, RowIs

\* A new row is in nobody's hands but its maker's.
LEMMA InsertsFit ==
  ASSUME Tidy, NEW t \in Task, NEW w \in WorkRow, TaskIs(t, w), NEW x \in MailRow, RowAdded(x),
         Drawn(x), Placed(w, rows'), t = "poll" => w.todo = {}, w.row \in {0, Len(rows) + 1}
  PROVE  Tidy'
<1>1. /\ DOMAIN rows = 1 .. Len(rows) /\ Len(rows) \in Nat
      /\ DOMAIN rows' = DOMAIN rows \cup {Len(rows) + 1} /\ Len(rows) + 1 \notin DOMAIN rows
      /\ Len(rows') <= MaxRows
  BY DEF Tidy, RowAdded
<1>2. \A s \in DOMAIN rows' : Drawn(rows'[s])
  BY <1>1 DEF Tidy, RowAdded
<1>3. tasks' \in [Task -> WorkRow] /\ tasks'["poll"].todo = {}
  BY DEF Tidy, TaskIs, Task
<1>4. \A u \in Task : Placed(tasks[u], rows) /\ tasks[u] \in WorkRow
  BY DEF Tidy
<1>5. \A u \in Task \ {t} : Placed(tasks[u], rows')
  BY <1>1, <1>4 DEF Placed, RowAdded
<1>6. \A u \in Task : Placed(tasks'[u], rows')
  BY <1>5 DEF TaskIs
<1>7. \A u \in Task : tasks[u].row \in DOMAIN rows \cup {0}
  BY <1>4 DEF Placed
<1>8. \A u, v \in Task : u # v /\ tasks'[u].row = tasks'[v].row /\ tasks'[u].row # 0
                           => u # t /\ v # t
  BY <1>1, <1>7 DEF TaskIs
<1>9. Shared'
  BY <1>1, <1>7, <1>8 DEF TaskIs, Tidy, Shared, RowAdded
<1> QED  BY <1>1, <1>2, <1>3, <1>6, <1>9 DEF Tidy, RowAdded

-----------------------------------------------------------------------------
(* What a step does to the weights.                                        *)

\* The two counts of attempts that matter.
Counts == {MaxAttempts, MaxAttempts + 1}

InPlay(r) ==
    \/ rows[r].status = "pending"
    \/ rows[r].status = "error" /\ rows[r].retries < MaxAttempts
    \/ \E t \in Task : tasks[t].row = r

\* A task that takes no row makes no row live.
LEMMA MovesLive ==
  ASSUME Tidy, NEW t \in Task, NEW w \in WorkRow, TaskIs(t, w), UNCHANGED rows,
         w.row \in {0, tasks[t].row}, NEW m, NEW k
  PROVE  Live(rows', tasks', m, k) \subseteq Live(rows, tasks, m, k)
<1>1. \A r \in DOMAIN rows : r # 0
  BY DEF Tidy
<1> QED  BY <1>1 DEF Live, TaskIs

\* A row that is in play stays so, and no other comes into play.
LEMMA WritesLive ==
  ASSUME Tidy, NEW t \in Task, NEW w \in WorkRow, TaskIs(t, w),
         NEW r \in DOMAIN rows, NEW x \in MailRow, RowIs(r, x), x.mail = rows[r].mail,
         InPlay(r), w.row \in {0, tasks[t].row, r}, NEW m, NEW k \in Counts
  PROVE  Live(rows', tasks', m, k) \subseteq Live(rows, tasks, m, k)
<1>1. DOMAIN rows' = DOMAIN rows /\ \A s \in DOMAIN rows : s # 0
  BY DEF Tidy, RowIs
<1>2. rows[r].retries \in Int /\ MaxAttempts \in Int /\ k \in Int /\ k >= MaxAttempts
  <2>1. MaxAttempts \in Int /\ k \in Int /\ k >= MaxAttempts
    BY IntakeAssumption DEF Counts
  <2>2. rows[r] \in MailRow
    BY DEF Tidy
  <2> QED  BY <2>1, <2>2 DEF MailRow
<1>3. r \in Live(rows, tasks, rows[r].mail, k)
  BY <1>2 DEF Live, InPlay, Counts
<1>4. ASSUME NEW s \in Live(rows', tasks', m, k), s # r  PROVE s \in Live(rows, tasks, m, k)
  BY <1>1, <1>4 DEF Live, RowIs, TaskIs
<1>5. r \in Live(rows', tasks', m, k) => m = rows[r].mail
  BY DEF Live, RowIs
<1> QED  BY <1>3, <1>4, <1>5

\* A new row is the only one that comes into play, for its mail.
LEMMA InsertsLive ==
  ASSUME Tidy, NEW t \in Task, NEW w \in WorkRow, TaskIs(t, w), NEW x \in MailRow, RowAdded(x),
         w.row \in {0, Len(rows) + 1}, NEW m, NEW k
  PROVE  /\ Live(rows', tasks', m, k) \subseteq Live(rows, tasks, m, k) \cup {Len(rows) + 1}
         /\ m # x.mail \/ (w.row = 0 /\ x.status \notin Open)
               => Live(rows', tasks', m, k) \subseteq Live(rows, tasks, m, k)
<1>1. /\ DOMAIN rows = 1 .. Len(rows) /\ Len(rows) \in Nat
      /\ DOMAIN rows' = DOMAIN rows \cup {Len(rows) + 1} /\ Len(rows) + 1 \notin DOMAIN rows
      /\ \A s \in DOMAIN rows : s # 0
  BY DEF Tidy, RowAdded
<1>2. \A u \in Task : tasks[u].row \in DOMAIN rows \cup {0}
  BY DEF Tidy, Placed
<1>3. ASSUME NEW s \in Live(rows', tasks', m, k), s # Len(rows) + 1
      PROVE  s \in Live(rows, tasks, m, k)
  BY <1>1, <1>3 DEF Live, RowAdded, TaskIs
<1>4. Len(rows) + 1 \in Live(rows', tasks', m, k) => m = x.mail
  BY DEF Live, RowAdded
<1>5. ASSUME w.row = 0, x.status \notin Open  PROVE Len(rows) + 1 \notin Live(rows', tasks', m, k)
  <2>1. \A u \in Task : tasks'[u].row # Len(rows) + 1
    BY <1>1, <1>2, <1>5 DEF TaskIs
  <2> QED  BY <1>5, <2>1 DEF Live, RowAdded, Open
<1> QED  BY <1>3, <1>4, <1>5

\* A task that moves is early at most for its own mail, and not once it has a
\* row or rests.
LEMMA MovesEarly ==
  ASSUME NEW t \in Task, NEW w \in WorkRow, TaskIs(t, w), NEW m
  PROVE  /\ Early(tasks', m) \subseteq Early(tasks, m) \cup {t}
         /\ m # w.mail \/ w.row # 0 \/ w.step = "rest" => Early(tasks', m) \subseteq Early(tasks, m) \ {t}
         /\ w.mail = tasks[t].mail /\ tasks[t].step # "rest" /\ tasks[t].row = 0
               => Early(tasks', m) \subseteq Early(tasks, m)
  BY DEF Early, TaskIs

\* A mail that is over stays so.
LEMMA StaysOver ==
  ASSUME Tidy, NEW m, Over(m), finished \subseteq finished',
         \/ UNCHANGED rows
         \/ \E x \in MailRow : RowAdded(x)
         \/ \E r \in DOMAIN rows, x \in MailRow :
               RowIs(r, x) /\ x.mail = rows[r].mail /\ (Dead(rows[r]) => Dead(x))
  PROVE  Over(m)'
<1>1. CASE m \in finished
  BY <1>1 DEF Over
<1>2. CASE UNCHANGED rows
  BY <1>2 DEF Over, Dead
<1>3. ASSUME NEW x \in MailRow, RowAdded(x)  PROVE Over(m)'
  <2>1. DOMAIN rows \subseteq DOMAIN rows'
    BY <1>3 DEF Tidy, RowAdded
  <2> QED  BY <1>3, <2>1 DEF Over, Dead, RowAdded
<1>4. ASSUME NEW r \in DOMAIN rows, NEW x \in MailRow, RowIs(r, x), x.mail = rows[r].mail,
             Dead(rows[r]) => Dead(x)
      PROVE  Over(m)'
  <2>1. DOMAIN rows' = DOMAIN rows
    BY <1>4 DEF Tidy, RowIs
  <2> QED  BY <1>4, <2>1 DEF Over, Dead, RowIs
<1> QED  BY <1>1, <1>2, <1>3, <1>4

\* A mail that gains no more weight than excuses stays even.
LEMMA WeighsEven ==
  ASSUME IntakeInv, Sides', Tidy', NEW m \in Mail,
         answers'[m] = answers[m], strays[m] <= strays'[m], crossings[m] <= crossings'[m],
         Over(m) => Over(m)',
         \A k \in Counts : Weight(rows', tasks', m, k) <= Weight(rows, tasks, m, k)
                                                            + (strays'[m] - strays[m])
  PROVE  Balanced(m)'
<1>1. /\ strays[m] \in Nat /\ crossings[m] \in Nat /\ answers[m] \in Nat
      /\ strays'[m] \in Nat /\ crossings'[m] \in Nat
  BY DEF IntakeInv, Sides
<1>2. \A k \in Counts : Weight(rows', tasks', m, k) \in Nat /\ Weight(rows, tasks, m, k) \in Nat
  BY Finite DEF IntakeInv, Tidy
<1>3. Balanced(m)
  BY DEF IntakeInv
<1> DEFINE high == Weight(rows, tasks, m, MaxAttempts + 1)
           low == Weight(rows, tasks, m, MaxAttempts)
           high2 == Weight(rows', tasks', m, MaxAttempts + 1)
           low2 == Weight(rows', tasks', m, MaxAttempts)
<1>4. /\ high \in Nat /\ low \in Nat /\ high2 \in Nat /\ low2 \in Nat
      /\ high2 <= high + (strays'[m] - strays[m]) /\ low2 <= low + (strays'[m] - strays[m])
  BY <1>2 DEF Counts
<1>5. Even(high, low, answers[m], strays[m], crossings[m], Over(m))
  BY <1>3 DEF Balanced
<1> HIDE DEF high, low, high2, low2
<1>6. Even(high2, low2, answers[m], strays'[m], crossings'[m], Over(m)')
  BY <1>1, <1>4, <1>5, StaysEven
<1> QED  BY <1>6 DEF Balanced, high2, low2

\* So does one for which nothing comes into play and no task starts afresh.
LEMMA OtherMailEven ==
  ASSUME IntakeInv, Sides', Tidy', NEW m \in Mail,
         answers'[m] = answers[m], strays'[m] = strays[m], crossings[m] <= crossings'[m],
         Over(m) => Over(m)', Early(tasks', m) \subseteq Early(tasks, m),
         \A k \in Counts : Live(rows', tasks', m, k) \subseteq Live(rows, tasks, m, k)
  PROVE  Balanced(m)'
<1>1. ASSUME NEW k \in Counts
      PROVE  Weight(rows', tasks', m, k) <= Weight(rows, tasks, m, k) + (strays'[m] - strays[m])
  <2>1. /\ IsFiniteSet(Live(rows, tasks, m, k)) /\ IsFiniteSet(Early(tasks, m))
        /\ Cardinality(Live(rows, tasks, m, k)) \in Nat /\ Cardinality(Early(tasks, m)) \in Nat
    BY Finite DEF IntakeInv, Tidy
  <2>2. /\ Cardinality(Live(rows', tasks', m, k)) \in Nat /\ Cardinality(Early(tasks', m)) \in Nat
    BY Finite DEF Tidy
  <2>3. /\ Cardinality(Live(rows', tasks', m, k)) <= Cardinality(Live(rows, tasks, m, k))
        /\ Cardinality(Early(tasks', m)) <= Cardinality(Early(tasks, m))
    BY <2>1, FS_Subset
  <2>4. strays'[m] = strays[m] /\ strays[m] \in Nat
    BY DEF IntakeInv, Sides
  <2> QED  BY <2>1, <2>2, <2>3, <2>4 DEF Weight
<1>2. strays[m] <= strays'[m]
  <2>1. strays[m] \in Nat
    BY DEF IntakeInv, Sides
  <2> QED  BY <2>1
<1> QED  BY <1>1, <1>2, WeighsEven

\* So does every mail when nothing comes into play at all.
LEMMA RestsEven ==
  ASSUME IntakeInv, Sides', Tidy', UNCHANGED <<answers, strays>>,
         \A m \in Mail : /\ crossings[m] <= crossings'[m] /\ (Over(m) => Over(m)')
                         /\ Early(tasks', m) \subseteq Early(tasks, m)
                         /\ \A k \in Counts : Live(rows', tasks', m, k) \subseteq Live(rows, tasks, m, k)
  PROVE  \A m \in Mail : Balanced(m)'
  BY OtherMailEven

-----------------------------------------------------------------------------
(* Steps over the same rows. *)

\* The records a task and a row are made of.
LEMMA MailRecords ==
  ASSUME IntakeInv
  PROVE  /\ \A t \in Task : tasks[t] \in WorkRow /\ Placed(tasks[t], rows)
         /\ \A r \in DOMAIN rows : rows[r] \in MailRow /\ r # 0
         /\ DOMAIN rows = 1 .. Len(rows) /\ Len(rows) \in Nat /\ Len(rows) <= MaxRows
         /\ now \in 0 .. MaxNow /\ now \in Nat /\ MaxAttempts \in Nat \ {0} /\ MaxRows \in Nat
<1>1. MaxNow \in Nat /\ MaxAttempts \in Nat \ {0} /\ MaxRows \in Nat
  BY DaemonAssumption, IntakeAssumption
<1>2. rows \in Seq(MailRow) /\ tasks \in [Task -> WorkRow] /\ Len(rows) <= MaxRows
      /\ \A t \in Task : Placed(tasks[t], rows)
  BY DEF IntakeInv, Tidy
<1>3. now \in 0 .. MaxNow
  BY DEF IntakeInv, Sides, DaemonTypes
<1> QED  BY <1>1, <1>2, <1>3

\* Mishaps stay within their bound.
LEMMA MishapTyped == mishaps \in 0 .. MaxMishaps /\ Mishap => mishaps' \in 0 .. MaxMishaps
  BY IntakeAssumption DEF Mishap

\* A task that drops its mail without a row, or goes on with it, leaves every
\* mail even.
LEMMA MovesEven ==
  ASSUME IntakeInv, Sides', NEW t \in Task, NEW w \in WorkRow, tasks' = [tasks EXCEPT ![t] = w],
         UNCHANGED <<rows, answers, strays, crossings>>, finished \subseteq finished',
         Placed(w, rows), t = "poll" => w.todo = {}, w.row \in {0, tasks[t].row},
         \/ w.row # 0
         \/ w.step = "rest"
         \/ w.mail = tasks[t].mail /\ tasks[t].step # "rest" /\ tasks[t].row = 0
  PROVE  IntakeInv'
<1>1. Tidy /\ Sides
  BY DEF IntakeInv
<1>2. TaskIs(t, w)
  BY <1>1, Moved
<1>3. Tidy'
  BY <1>1, <1>2, MovesFit
<1>4. ASSUME NEW m \in Mail
      PROVE  /\ crossings[m] <= crossings'[m] /\ (Over(m) => Over(m)')
             /\ Early(tasks', m) \subseteq Early(tasks, m)
             /\ \A k \in Counts : Live(rows', tasks', m, k) \subseteq Live(rows, tasks, m, k)
  <2>1. \A k \in Counts : Live(rows', tasks', m, k) \subseteq Live(rows, tasks, m, k)
    BY <1>1, <1>2, MovesLive
  <2>2. Early(tasks', m) \subseteq Early(tasks, m)
    BY <1>2, MovesEarly
  <2>3. Over(m) => Over(m)'
    BY <1>1, StaysOver
  <2>4. crossings[m] <= crossings'[m]
    <3>1. crossings[m] \in Nat
      BY <1>1 DEF Sides
    <3> QED  BY <3>1
  <2> QED  BY <2>1, <2>2, <2>3, <2>4
<1>5. \A m \in Mail : Balanced(m)'
  BY <1>3, <1>4, RestsEven
<1> QED  BY <1>3, <1>5 DEF IntakeInv

\* A failed triage, a mail worth a reply, an envelope read, a mishap of a
\* program without a draft.
LEMMA QuietStepsKeepMail ==
  ASSUME IntakeInv, NEW t \in Task,
         \/ TriageFails(t) \/ WorthAReply(t) \/ EnvelopeKnown(t)
         \/ SetAside(t) /\ UNCHANGED rows
         \/ ProgramFails(t) /\ Held(t) = 0
  PROVE  IntakeInv'
<1> DEFINE old == tasks[t]
<1>1. /\ old \in WorkRow /\ Placed(old, rows) /\ Sides /\ Tidy
      /\ \A r \in DOMAIN rows : rows[r] \in MailRow /\ r # 0
  BY MailRecords DEF IntakeInv
<1>2. t = "poll" => old.todo = {}
  BY DEF IntakeInv, Tidy
<1>3. CASE TriageFails(t) \/ (SetAside(t) /\ UNCHANGED rows)
  <2> DEFINE w == [AtRest EXCEPT !.todo = old.todo]
  <2>1. w \in WorkRow /\ w.step = "rest" /\ w.row = 0 /\ w.todo = old.todo
    BY <1>1, IntakeAssumption DEF AtRest, WorkRow
  <2>2. tasks' = [tasks EXCEPT ![t] = w] /\ UNCHANGED <<rows, answers, strays, crossings>>
    BY <1>3 DEF TriageFails, SetAside, Done
  <2>3. old.step = "triage"
    BY <1>3 DEF TriageFails, SetAside, InStep
  <2>4. Sides' /\ finished \subseteq finished'
    <3>1. mishaps' \in 0 .. MaxMishaps
      BY <1>1, <1>3, MishapTyped DEF TriageFails, SetAside, Sides
    <3>2. finished' \subseteq Mail /\ finished \subseteq finished'
      BY <1>1, <1>3, <2>3 DEF Sides, TriageFails, SetAside, Finish, Mine, Placed
    <3>3. UNCHANGED <<now, restarts, rows, strays, crossings, answers, skipping>>
      BY <1>3 DEF TriageFails, SetAside, daemonVars
    <3> QED  BY <1>1, <3>1, <3>2, <3>3 DEF Sides, DaemonTypes
  <2>5. Placed(w, rows)
    BY <1>1, <2>1 DEF Placed
  <2> HIDE DEF w
  <2> QED  BY <1>2, <2>1, <2>2, <2>4, <2>5, MovesEven
<1>4. CASE WorthAReply(t) \/ EnvelopeKnown(t)
  <2> DEFINE w == [old EXCEPT !.step = IF WorthAReply(t) THEN "program"
                                       ELSE IF rows[old.row].draftId THEN "card" ELSE "draft"]
  <2>1. /\ w \in WorkRow /\ w.row = old.row /\ w.mail = old.mail /\ w.todo = old.todo
        /\ w.step = (IF WorthAReply(t) THEN "program"
                     ELSE IF rows[old.row].draftId THEN "card" ELSE "draft")
    BY <1>1 DEF WorkRow
  <2>2. tasks' = [tasks EXCEPT ![t] = w]
    BY <1>4 DEF WorthAReply, EnvelopeKnown, To, Held, InStep
  <2>3. old.step = (IF WorthAReply(t) THEN "triage" ELSE "envelope")
    BY <1>4 DEF WorthAReply, EnvelopeKnown, InStep
  <2>4. Sides' /\ finished \subseteq finished' /\ UNCHANGED <<rows, answers, strays, crossings>>
    BY <1>1, <1>4 DEF Sides, WorthAReply, EnvelopeKnown, DaemonTypes, daemonVars
  <2> HIDE DEF w
  <2>5. Placed(w, rows)
    BY <1>1, <2>1, <2>3 DEF Placed
  <2>6. old.row = 0 => w.mail = old.mail /\ old.step # "rest"
    BY <2>1, <2>3
  <2> QED  BY <1>2, <2>1, <2>2, <2>4, <2>5, <2>6, MovesEven
<1>5. CASE ProgramFails(t) /\ Held(t) = 0
  <2>1. PICK step \in {"repair", "classic"} :
           tasks' = [tasks EXCEPT ![t] = [@ EXCEPT !.step = step, !.row = 0]]
    BY <1>5 DEF ProgramFails
  <2> DEFINE w == [old EXCEPT !.step = step, !.row = 0]
  <2>2. /\ w \in WorkRow /\ w.row = 0 /\ w.mail = old.mail /\ w.todo = old.todo /\ w.step = step
    <3>1. 0 \in 0 .. MaxRows
      BY IntakeAssumption
    <3> QED  BY <1>1, <3>1 DEF WorkRow
  <2>3. tasks' = [tasks EXCEPT ![t] = w]
    BY <2>1
  <2>4. old.step \in {"program", "repair"} /\ old.row = 0
    BY <1>5 DEF ProgramFails, Held
  <2>5. strays' = strays
    BY <1>1, <1>5 DEF ProgramFails, Sides
  <2>6. Sides' /\ finished \subseteq finished' /\ UNCHANGED <<rows, answers, strays, crossings>>
    <3>1. mishaps' \in 0 .. MaxMishaps
      BY <1>1, <1>5, MishapTyped DEF ProgramFails, Sides
    <3>2. UNCHANGED <<now, restarts, finished, rows, crossings, answers, skipping>>
      BY <1>5 DEF ProgramFails, daemonVars
    <3> QED  BY <1>1, <2>5, <3>1, <3>2 DEF Sides, DaemonTypes
  <2> HIDE DEF w
  <2>7. Placed(w, rows)
    BY <1>1, <2>2, <2>4 DEF Placed
  <2> QED  BY <1>2, <2>2, <2>3, <2>4, <2>6, <2>7, MovesEven
<1> QED  BY <1>3, <1>4, <1>5


\* A mail that is taken up has no open row and no answer without an excuse: it
\* weighs one, and one more if the other task is on it, which is excused.
LEMMA TakesUpEven ==
  ASSUME IntakeInv, Sides', Tidy', NEW t \in Task, NEW w \in WorkRow, TaskIs(t, w),
         NEW m \in Mail, w.mail = m, w.row = 0, w.step = "triage",
         DOMAIN rows' = DOMAIN rows, \A s \in DOMAIN rows : rows'[s].mail = rows[s].mail,
         \A s \in DOMAIN rows : rows[s].mail = m => rows'[s].status \notin Open,
         ~Over(m), answers' = answers, crossings' = crossings,
         strays'[m] = strays[m] + Overlaps(t, m)
  PROVE  Balanced(m)'
<1> DEFINE o == IF t = "poll" THEN "retry" ELSE "poll"
           own == tasks[o]
<1>1. o \in Task /\ o # t /\ Task = {t, o} /\ own \in WorkRow /\ Placed(own, rows)
  BY MailRecords DEF Task
<1>2. tasks'[o] = own /\ tasks'[t] = w
  BY <1>1 DEF TaskIs
<1> HIDE DEF o, own
<1>3. \A r \in DOMAIN rows : rows[r] \in MailRow /\ r # 0
  BY MailRecords
<1>4. \A k \in Counts : Live(rows', tasks', m, k) \subseteq
         {r \in DOMAIN rows : rows[r].mail = m /\ own.row = r}
  BY <1>1, <1>2, <1>3 DEF Live, Open
<1>5. Early(tasks', m) \subseteq {t} \cup {u \in {o} : own.mail = m /\ own.step # "rest" /\ own.row = 0}
  BY <1>1, <1>2 DEF Early
<1>6. Overlaps(t, m) = IF own.mail = m /\ own.step # "rest" THEN 1 ELSE 0
  BY <1>1, <1>2 DEF Overlaps, own
<1>7. /\ IsFiniteSet({t}) /\ Cardinality({t}) = 1
      /\ IsFiniteSet({own.row}) /\ Cardinality({own.row}) = 1
      /\ Cardinality({}) = 0
  BY FS_Singleton, FS_EmptySet
<1>8. \A k \in Counts : Weight(rows', tasks', m, k) <= 1 + Overlaps(t, m)
  <2> SUFFICES ASSUME NEW k \in Counts PROVE Weight(rows', tasks', m, k) <= 1 + Overlaps(t, m)
    OBVIOUS
  <2> DEFINE live == Live(rows', tasks', m, k)
             early == Early(tasks', m)
  <2>1. Cardinality(live) \in Nat /\ Cardinality(early) \in Nat /\ IsFiniteSet(live) /\ IsFiniteSet(early)
    BY Finite DEF Tidy
  <2>2. live \subseteq {r \in DOMAIN rows : rows[r].mail = m /\ own.row = r}
    BY <1>4
  <2>3. early \subseteq {t} \cup {u \in {o} : own.mail = m /\ own.step # "rest" /\ own.row = 0}
    BY <1>5
  <2>4. Weight(rows', tasks', m, k) = Cardinality(live) + Cardinality(early)
    BY DEF Weight
  <2> HIDE DEF live, early
  <2>5. CASE own.row = 0
    <3>1. live = {}
      BY <1>3, <2>2, <2>5
    <3>2. Cardinality(live) = 0
      BY <1>7, <3>1
    <3>3. CASE own.mail = m /\ own.step # "rest"
      <4>1. early \subseteq {t} \cup {o}
        BY <2>3
      <4>2. Cardinality(early) <= Cardinality({t}) + 1
        BY <1>7, <4>1, OneMore
      <4>3. Overlaps(t, m) = 1
        BY <1>6, <3>3
      <4> QED  BY <1>7, <2>1, <2>4, <3>2, <4>2, <4>3
    <3>4. CASE ~(own.mail = m /\ own.step # "rest")
      <4>1. early \subseteq {t}
        BY <2>3, <3>4
      <4>2. Cardinality(early) <= Cardinality({t})
        BY <1>7, <4>1, FS_Subset
      <4>3. Overlaps(t, m) = 0
        BY <1>6, <3>4
      <4> QED  BY <1>7, <2>1, <2>4, <3>2, <4>2, <4>3
    <3> QED  BY <3>3, <3>4
  <2>6. CASE own.row # 0
    <3>1. early \subseteq {t}
      BY <2>3, <2>6
    <3>2. Cardinality(early) <= Cardinality({t})
      BY <1>7, <3>1, FS_Subset
    <3>3. own.step # "rest" /\ own.row \in DOMAIN rows /\ rows[own.row].mail = own.mail
      BY <1>1, <2>6 DEF Placed
    <3>4. CASE own.mail = m
      <4>1. live \subseteq {own.row}
        BY <2>2
      <4>2. Cardinality(live) <= Cardinality({own.row})
        BY <1>7, <4>1, FS_Subset
      <4>3. Overlaps(t, m) = 1
        BY <1>6, <3>3, <3>4
      <4> QED  BY <1>7, <2>1, <2>4, <3>2, <4>2, <4>3
    <3>5. CASE own.mail # m
      <4>1. live = {}
        BY <2>2, <3>3, <3>5
      <4>2. Cardinality(live) = 0
        BY <1>7, <4>1
      <4>3. Overlaps(t, m) = 0
        BY <1>6, <3>5
      <4> QED  BY <1>7, <2>1, <2>4, <3>2, <4>2, <4>3
    <3> QED  BY <3>4, <3>5
  <2> QED  BY <2>5, <2>6
<1> DEFINE high == Weight(rows', tasks', m, MaxAttempts + 1)
           low == Weight(rows', tasks', m, MaxAttempts)
<1>9. high \in Nat /\ low \in Nat /\ high <= 1 + Overlaps(t, m) /\ low <= 1 + Overlaps(t, m)
  BY <1>8, Finite DEF Tidy, Counts
<1>10. strays[m] \in Nat /\ crossings[m] \in Nat /\ answers[m] \in Nat /\ Overlaps(t, m) \in Nat
  BY <1>6 DEF IntakeInv, Sides
<1>11. answers[m] <= strays[m] + crossings[m]
  BY <1>10 DEF IntakeInv, Balanced, Even
<1> HIDE DEF high, low
<1>12. Even(high, low, answers[m], strays'[m], crossings[m], Over(m)')
  BY <1>9, <1>10, <1>11 DEF Even
<1> QED  BY <1>12 DEF Balanced, high, low

\* The poll takes up a mail that nothing is open for.
LEMMA PollKeepsMail ==
  ASSUME IntakeInv, NEW m \in Mail, Poll(m)
  PROVE  IntakeInv'
<1> DEFINE w == [step |-> "triage", mail |-> m, row |-> 0, todo |-> {}]
<1>1. Tidy /\ Sides /\ MaxRows \in Nat /\ "poll" \in Task
  BY IntakeAssumption DEF IntakeInv, Task
<1>2. w \in WorkRow
  BY <1>1 DEF WorkRow
<1>3. w.mail = m /\ w.row = 0 /\ w.step = "triage" /\ w.todo = {} /\ Placed(w, rows)
  BY DEF Placed
<1>4. tasks' = [tasks EXCEPT !["poll"] = w]
  BY DEF Poll, TakeUp
<1> HIDE DEF w
<1>5. TaskIs("poll", w)
  BY <1>1, <1>2, <1>4, Moved
<1>6. UNCHANGED <<now, restarts, finished, rows, mishaps, crossings, answers, skipping>>
      /\ strays' = [strays EXCEPT ![m] = @ + Overlaps("poll", m)]
  BY DEF Poll, daemonVars
<1>7. Overlaps("poll", m) \in Nat
  BY DEF Overlaps
<1>8. strays' \in [Mail -> Nat] /\ strays'[m] = strays[m] + Overlaps("poll", m)
      /\ \A n \in Mail \ {m} : strays'[n] = strays[n]
  <2>1. strays \in [Mail -> Nat] /\ strays[m] \in Nat
    BY <1>1 DEF Sides
  <2> QED  BY <1>6, <1>7, <2>1
<1>9. Sides'
  BY <1>1, <1>6, <1>8 DEF Sides, DaemonTypes
<1>10. Tidy'
  BY <1>1, <1>2, <1>3, <1>5, <1>6, MovesFit
<1>11. ~Over(m) /\ \A s \in DOMAIN rows : rows[s].mail = m => rows[s].status \notin Open
  BY DEF Poll, FreeIn, Over, Dead, Open
<1>12. Balanced(m)'
  BY <1>1, <1>2, <1>3, <1>5, <1>6, <1>8, <1>9, <1>10, <1>11, TakesUpEven
<1>13. ASSUME NEW n \in Mail, n # m  PROVE Balanced(n)'
  <2>1. \A k \in Counts : Live(rows', tasks', n, k) \subseteq Live(rows, tasks, n, k)
    BY <1>1, <1>2, <1>3, <1>5, <1>6, MovesLive
  <2>2. Early(tasks', n) \subseteq Early(tasks, n)
    BY <1>1, <1>2, <1>3, <1>5, <1>13, MovesEarly
  <2>3. Over(n) => Over(n)'
    BY <1>1, <1>6, StaysOver
  <2>4. answers'[n] = answers[n] /\ strays'[n] = strays[n] /\ crossings'[n] = crossings[n]
        /\ crossings[n] \in Nat
    BY <1>1, <1>6, <1>8, <1>13 DEF Sides
  <2>5. crossings[n] <= crossings'[n]
    BY <2>4
  <2> QED  BY <1>9, <1>10, <2>1, <2>2, <2>3, <2>4, <2>5, OtherMailEven
<1> QED  BY <1>9, <1>10, <1>12, <1>13 DEF IntakeInv


-----------------------------------------------------------------------------
(* Steps that write a row. *)

\* A step that writes a row in play, and no task starts afresh.
LEMMA WritesEven ==
  ASSUME IntakeInv, Sides', Tidy', NEW t \in Task, NEW w \in WorkRow, TaskIs(t, w),
         NEW r \in DOMAIN rows, NEW x \in MailRow, RowIs(r, x), x.mail = rows[r].mail,
         InPlay(r), w.row \in {0, tasks[t].row, r}, Dead(rows[r]) => Dead(x),
         UNCHANGED <<answers, strays>>, \A m \in Mail : crossings[m] <= crossings'[m],
         finished \subseteq finished',
         \/ w.row # 0
         \/ w.step = "rest"
         \/ w.mail = tasks[t].mail /\ tasks[t].step # "rest" /\ tasks[t].row = 0
  PROVE  IntakeInv'
<1>1. Tidy
  BY DEF IntakeInv
<1>2. ASSUME NEW m \in Mail, NEW k \in Counts
      PROVE  Live(rows', tasks', m, k) \subseteq Live(rows, tasks, m, k)
  BY <1>1, WritesLive
<1>3. \A m \in Mail : Early(tasks', m) \subseteq Early(tasks, m)
  BY MovesEarly
<1>4. \A m \in Mail : Over(m) => Over(m)'
  BY <1>1, StaysOver
<1>5. \A m \in Mail : Balanced(m)'
  BY <1>2, <1>3, <1>4, RestsEven
<1> QED  BY <1>5 DEF IntakeInv

\* A task that has the row drafts, fails to draft, or puts it on a card.
LEMMA HeldWritesKeepMail ==
  ASSUME IntakeInv, NEW t \in Task,
         DraftCreated(t) \/ DraftFails(t) \/ CardPosted(t) \/ CardRefused(t)
  PROVE  IntakeInv'
<1> DEFINE old == tasks[t]
           r == old.row
           rest == [AtRest EXCEPT !.todo = old.todo]
<1>1. /\ old \in WorkRow /\ Placed(old, rows) /\ Sides /\ Tidy
      /\ now \in 0 .. MaxNow
  BY MailRecords DEF IntakeInv
<1>2. old.step = (IF DraftCreated(t) \/ DraftFails(t) THEN "draft" ELSE "card") \/ old.step = "card"
  BY DEF DraftCreated, DraftFails, CardPosted, CardRefused, InStep
<1>3. old.step \in {"draft", "card"}
  BY <1>2
<1>4. r # 0 /\ r \in DOMAIN rows /\ rows[r].mail = old.mail /\ old.mail \in Mail
      /\ (old.step = "draft" => ~rows[r].draftId)
      /\ (rows[r].status = "error" => rows[r].draftId)
  BY <1>1, <1>3 DEF Placed
<1>5. rows[r] \in MailRow /\ Drawn(rows[r])
  BY <1>1, <1>4 DEF Tidy
<1>6. r \in tasks["retry"].todo => rows[r].status = "error" /\ rows[r].retries < MaxAttempts
  BY <1>1 DEF Tidy, Placed, Task
<1>7. rest \in WorkRow /\ rest.step = "rest" /\ rest.row = 0 /\ rest.todo = old.todo
  <2>1. 0 \in 0 .. MaxRows
    BY IntakeAssumption
  <2> QED  BY <1>1, <2>1 DEF AtRest, WorkRow
<1>8. t = "poll" => old.todo = {}
  BY <1>1 DEF Tidy
<1>9. /\ UNCHANGED <<now, restarts, strays, crossings, answers, skipping>>
      /\ \/ UNCHANGED mishaps
         \/ Mishap
      /\ \/ UNCHANGED finished
         \/ finished' = finished \cup {old.mail}
  BY DEF DraftCreated, DraftFails, CardPosted, CardRefused, daemonVars, Finish, Mine
<1>10. mishaps' \in 0 .. MaxMishaps
  BY <1>1, <1>9, MishapTyped DEF Sides
<1>11. InPlay(r)
  BY DEF InPlay
<1>12. \A m \in Mail : crossings[m] <= crossings'[m]
  <2>1. \A m \in Mail : crossings[m] \in Nat
    BY <1>1 DEF Sides
  <2> QED  BY <1>9, <2>1
<1> HIDE DEF old, r, rest
<1>13. ASSUME NEW x \in MailRow, rows' = [rows EXCEPT ![r] = x], x.mail = rows[r].mail,
              rows[r].draftId => x.draftId, Drawn(x), x.retries = rows[r].retries,
              x.status \in {"error", rows[r].status},
              NEW w \in WorkRow, tasks' = [tasks EXCEPT ![t] = w], w.todo = old.todo,
              Placed(w, rows'), w.row \in {0, r}, w.row # 0 \/ w.step = "rest"
       PROVE  IntakeInv'
  <2>1. RowIs(r, x)
    BY <1>1, <1>4, <1>13, Rewritten
  <2>2. TaskIs(t, w)
    BY <1>1, <1>13, Moved
  <2>3. r = tasks[t].row
    BY DEF r, old
  <2>4. Tidy'
    <3>1. r \in tasks["retry"].todo => x.status = "error" /\ x.retries < MaxAttempts
      BY <1>6, <1>13
    <3> QED  BY <1>1, <1>4, <1>8, <1>13, <2>1, <2>2, <2>3, <3>1, WritesFit
  <2>5. Sides'
    <3>1. DOMAIN rows' = DOMAIN rows
      BY <1>13
    <3>2. finished' \subseteq Mail
      BY <1>1, <1>4, <1>9 DEF Sides
    <3> QED  BY <1>1, <1>9, <1>10, <3>1, <3>2 DEF Sides, DaemonTypes
  <2>6. Dead(rows[r]) => Dead(x)
    BY <1>13 DEF Dead
  <2>7. finished \subseteq finished'
    BY <1>9
  <2> QED  BY <1>4, <1>9, <1>11, <1>12, <1>13, <2>1, <2>2, <2>3, <2>4, <2>5, <2>6, <2>7, WritesEven
<1>14. ASSUME NEW x \in MailRow, rows' = [rows EXCEPT ![r] = x], x.mail = rows[r].mail,
              rows[r].draftId => x.draftId, x.retries = rows[r].retries,
              x.status \in {"error", rows[r].status}
       PROVE  Placed(rest, rows')
  <2>1. RowIs(r, x)
    BY <1>1, <1>4, <1>14, Rewritten
  <2>2. \A s \in rest.todo : s \in DOMAIN rows /\ rows[s].status = "error" /\ rows[s].retries < MaxAttempts
    BY <1>1, <1>7 DEF Placed
  <2> QED  BY <1>7, <1>14, <2>1, <2>2 DEF Placed, RowIs, Tidy
<1>15. CASE DraftCreated(t)
  <2> DEFINE x == [rows[r] EXCEPT !.draftId = TRUE, !.drafts = rows[r].drafts + 1]
             w == [old EXCEPT !.step = "card"]
  <2>1. old.step = "draft"
    BY <1>15 DEF DraftCreated, InStep, old
  <2>2. rows[r].drafts \in Nat /\ rows[r].lost \in Nat
    BY <1>5 DEF MailRow
  <2>3. /\ x \in MailRow /\ x.mail = rows[r].mail /\ x.draftId = TRUE /\ x.retries = rows[r].retries
        /\ x.status = rows[r].status /\ x.drafts = rows[r].drafts + 1 /\ x.lost = rows[r].lost
    <3>1. rows[r].drafts + 1 \in Nat
      BY <2>2
    <3> QED  BY <1>5, <3>1 DEF MailRow
  <2>4. w \in WorkRow /\ w.step = "card" /\ w.row = r /\ w.mail = old.mail /\ w.todo = old.todo
    BY <1>1 DEF WorkRow, r
  <2>5. rows' = [rows EXCEPT ![r] = x] /\ tasks' = [tasks EXCEPT ![t] = w]
    BY <1>15 DEF DraftCreated, To, Held, old, r
  <2> HIDE DEF x, w
  <2>6. Drawn(x)
    BY <1>4, <1>5, <2>1, <2>2, <2>3 DEF Drawn
  <2>7. RowIs(r, x)
    BY <1>1, <1>4, <2>3, <2>5, Rewritten
  <2>8. Placed(w, rows')
    <3>1. \A s \in old.todo : s \in DOMAIN rows /\ rows[s].status = "error" /\ rows[s].retries < MaxAttempts
      BY <1>1 DEF Placed
    <3> QED  BY <1>1, <1>4, <2>3, <2>4, <2>7, <3>1 DEF Placed, RowIs, Tidy
  <2> QED  BY <1>4, <1>13, <2>3, <2>4, <2>5, <2>6, <2>8
<1>16. CASE DraftFails(t)
  <2>1. PICK made \in {0, 1} :
           rows' = [rows EXCEPT ![r] = [@ EXCEPT !.status = "error", !.touched = now,
                                                 !.drafts = rows[r].drafts + made,
                                                 !.lost = rows[r].lost + made]]
    BY <1>16 DEF DraftFails, Held, old, r
  <2> DEFINE x == [rows[r] EXCEPT !.status = "error", !.touched = now,
                                  !.drafts = rows[r].drafts + made, !.lost = rows[r].lost + made]
  <2>2. old.step = "draft"
    BY <1>16 DEF DraftFails, InStep, old
  <2>3. rows[r].drafts \in Nat /\ rows[r].lost \in Nat /\ made \in Nat
    BY <1>5 DEF MailRow
  <2>4. /\ x \in MailRow /\ x.mail = rows[r].mail /\ x.draftId = rows[r].draftId
        /\ x.retries = rows[r].retries /\ x.status = "error"
        /\ x.drafts = rows[r].drafts + made /\ x.lost = rows[r].lost + made
    <3>1. rows[r].drafts + made \in Nat /\ rows[r].lost + made \in Nat
      BY <2>3
    <3> QED  BY <1>1, <1>5, <3>1 DEF MailRow, Open
  <2>5. rows' = [rows EXCEPT ![r] = x]
    BY <2>1
  <2>6. tasks' = [tasks EXCEPT ![t] = rest]
    BY <1>16 DEF DraftFails, Done, rest, old
  <2> HIDE DEF x
  <2>7. Drawn(x)
    BY <1>4, <1>5, <2>2, <2>3, <2>4 DEF Drawn
  <2> QED  BY <1>7, <1>13, <1>14, <2>4, <2>5, <2>6, <2>7
<1>17. CASE CardPosted(t)
  <2> DEFINE x == [rows[r] EXCEPT !.shown = rows[r].shown + 1]
  <2>1. rows[r].shown \in Nat
    BY <1>5 DEF MailRow
  <2>2. /\ x \in MailRow /\ x.mail = rows[r].mail /\ x.draftId = rows[r].draftId
        /\ x.retries = rows[r].retries /\ x.status = rows[r].status
        /\ x.drafts = rows[r].drafts /\ x.lost = rows[r].lost
    BY <1>5, <2>1 DEF MailRow
  <2>3. rows' = [rows EXCEPT ![r] = x]
    BY <1>17 DEF CardPosted, Held, old, r
  <2>4. tasks' = [tasks EXCEPT ![t] = rest]
    BY <1>17 DEF CardPosted, Done, rest, old
  <2> HIDE DEF x
  <2>5. Drawn(x)
    BY <1>5, <2>2 DEF Drawn
  <2> QED  BY <1>7, <1>13, <1>14, <2>2, <2>3, <2>4, <2>5
<1>18. CASE CardRefused(t)
  <2> DEFINE x == [rows[r] EXCEPT !.status = "error", !.touched = now]
  <2>1. /\ x \in MailRow /\ x.mail = rows[r].mail /\ x.draftId = rows[r].draftId
        /\ x.retries = rows[r].retries /\ x.status = "error"
        /\ x.drafts = rows[r].drafts /\ x.lost = rows[r].lost
    BY <1>1, <1>5 DEF MailRow, Open
  <2>2. rows' = [rows EXCEPT ![r] = x]
    BY <1>18 DEF CardRefused, Held, old, r
  <2>3. tasks' = [tasks EXCEPT ![t] = rest]
    BY <1>18 DEF CardRefused, Done, rest, old
  <2> HIDE DEF x
  <2>4. Drawn(x)
    BY <1>5, <2>1 DEF Drawn
  <2> QED  BY <1>7, <1>13, <1>14, <2>1, <2>2, <2>3, <2>4
<1> QED  BY <1>15, <1>16, <1>17, <1>18


\* dispatch_reply up to the thread: a row in play is pending and in the task's
\* hands, or superseded and its mail finished.
LEMMA DispatchKeepsMail ==
  ASSUME IntakeInv, NEW t \in Task, NEW r \in DOMAIN rows, InPlay(r), ~Dead(rows[r]),
         NEW y \in MailRow, y.mail = rows[r].mail, y.draftId = rows[r].draftId,
         y.drafts = rows[r].drafts, y.lost = rows[r].lost,
         NEW todo \in SUBSET Row, todo \subseteq tasks[t].todo, r \notin todo,
         r \in tasks["retry"].todo => t = "retry",
         tasks[t].row = r \/ (rows[r].status = "error" /\ tasks[t].row = 0),
         Dispatch(t, r, [rows EXCEPT ![r] = y], todo),
         UNCHANGED <<daemonVars, mishaps, strays, crossings, answers, skipping>>
  PROVE  IntakeInv'
<1>1. /\ tasks[t] \in WorkRow /\ Placed(tasks[t], rows) /\ Sides /\ Tidy /\ now \in 0 .. MaxNow
      /\ MaxRows \in Nat /\ rows[r] \in MailRow /\ r \in 0 .. MaxRows /\ r # 0 /\ Drawn(rows[r])
  <2>1. /\ tasks[t] \in WorkRow /\ Placed(tasks[t], rows) /\ now \in 0 .. MaxNow
        /\ MaxRows \in Nat /\ rows[r] \in MailRow /\ r # 0
        /\ DOMAIN rows = 1 .. Len(rows) /\ Len(rows) \in Nat /\ Len(rows) <= MaxRows
    BY MailRecords
  <2>2. r \in 0 .. MaxRows
    BY <2>1
  <2>3. Sides /\ Tidy /\ Drawn(rows[r])
    BY DEF IntakeInv, Tidy
  <2> QED  BY <2>1, <2>2, <2>3
<1> DEFINE m == rows[r].mail
<1>2. m \in Mail /\ [rows EXCEPT ![r] = y][r] = y
  BY <1>1 DEF MailRow, Tidy
<1>3. t = "poll" => tasks[t].todo = {}
  BY <1>1 DEF Tidy
<1>4. \A n \in Mail : crossings[n] <= crossings'[n]
  <2>1. \A n \in Mail : crossings[n] \in Nat
    BY <1>1 DEF Sides
  <2> QED  BY <2>1
<1>5. ASSUME NEW x \in MailRow, rows' = [rows EXCEPT ![r] = x], x.mail = m,
             x.draftId = rows[r].draftId, x.drafts = rows[r].drafts, x.lost = rows[r].lost,
             x.status # "error",
             NEW w \in WorkRow, tasks' = [tasks EXCEPT ![t] = w], w.todo = todo,
             \/ w.step = "rest" /\ w.row = 0
             \/ w.step = "envelope" /\ w.row = r /\ w.mail = m,
             finished' \in {finished, finished \cup {m}}
      PROVE  IntakeInv'
  <2>1. RowIs(r, x)
    BY <1>1, <1>5, Rewritten
  <2>2. TaskIs(t, w)
    BY <1>1, <1>5, Moved
  <2>3. Placed(w, rows')
    <3>1. \A s \in todo : s \in DOMAIN rows /\ s # r /\ rows[s].status = "error" /\ rows[s].retries < MaxAttempts
      BY <1>1 DEF Placed
    <3>2. DOMAIN rows' = DOMAIN rows
      BY <1>5
    <3>3. rows'[r].mail = m /\ rows'[r].status # "error"
      BY <1>5, <2>1 DEF RowIs
    <3>4. \A s \in w.todo : s \in DOMAIN rows' /\ rows'[s].status = "error" /\ rows'[s].retries < MaxAttempts
      BY <1>5, <2>1, <3>1, <3>2 DEF RowIs
    <3> QED  BY <1>1, <1>2, <1>5, <3>2, <3>3, <3>4 DEF Placed
  <2>4. Drawn(x)
    BY <1>1, <1>5 DEF Drawn
  <2>5. w.row \in {0, tasks[t].row, r} /\ (w.row \in {0, tasks[t].row} \/ (w.row = r /\ rows[r].status = "error"))
    <3>1. tasks[t].row = r \/ rows[r].status = "error"
      OBVIOUS
    <3>2. w.row = 0 \/ w.row = r
      BY <1>5
    <3> QED  BY <3>1, <3>2
  <2>6. t = "poll" => w.todo = {}
    BY <1>3, <1>5
  <2>7. Tidy'
    BY <1>1, <1>5, <2>1, <2>2, <2>3, <2>4, <2>5, <2>6, WritesFit
  <2>8. Sides'
    <3>1. DOMAIN rows' = DOMAIN rows
      BY <1>5
    <3>2. finished' \subseteq Mail
      BY <1>1, <1>2, <1>5 DEF Sides
    <3> QED  BY <1>1, <3>1, <3>2 DEF Sides, DaemonTypes, daemonVars
  <2>9. finished \subseteq finished' /\ (w.row # 0 \/ w.step = "rest")
    BY <1>1, <1>5
  <2> QED  BY <1>4, <1>5, <2>1, <2>2, <2>5, <2>7, <2>8, <2>9, WritesEven
<1>6. 0 \in 0 .. MaxRows
  BY <1>1
<1>7. CASE m \in Invite
  <2> DEFINE x == [y EXCEPT !.status = "superseded", !.touched = now]
             w == [AtRest EXCEPT !.todo = todo]
  <2>1. /\ x \in MailRow /\ x.mail = m /\ x.draftId = rows[r].draftId /\ x.drafts = rows[r].drafts
        /\ x.lost = rows[r].lost /\ x.status = "superseded"
    BY <1>1 DEF MailRow
  <2>2. w \in WorkRow /\ w.todo = todo /\ w.step = "rest" /\ w.row = 0
    BY <1>6 DEF WorkRow, AtRest
  <2>3. rows' = [[rows EXCEPT ![r] = y] EXCEPT ![r] = x]
    BY <1>2, <1>7 DEF Dispatch
  <2>4. tasks' = [tasks EXCEPT ![t] = w] /\ finished' = finished \cup {m}
    BY <1>2, <1>7 DEF Dispatch, Finish
  <2> HIDE DEF x, w
  <2>5. rows' = [rows EXCEPT ![r] = x]
    BY <2>3
  <2> QED  BY <1>5, <2>1, <2>2, <2>4, <2>5
<1>8. CASE m \notin Invite
  <2> DEFINE x == [y EXCEPT !.status = "pending", !.touched = now]
             w == [step |-> "envelope", mail |-> m, row |-> r, todo |-> todo]
  <2>1. /\ x \in MailRow /\ x.mail = m /\ x.draftId = rows[r].draftId /\ x.drafts = rows[r].drafts
        /\ x.lost = rows[r].lost /\ x.status = "pending"
    BY <1>1 DEF MailRow, Open
  <2>2. w \in WorkRow /\ w.todo = todo /\ w.step = "envelope" /\ w.row = r /\ w.mail = m
    BY <1>1, <1>2 DEF WorkRow
  <2>3. rows' = [[rows EXCEPT ![r] = y] EXCEPT ![r] = x]
    BY <1>2, <1>8 DEF Dispatch
  <2>4. tasks' = [tasks EXCEPT ![t] = w] /\ finished' = finished
    BY <1>2, <1>8 DEF Dispatch
  <2> HIDE DEF x, w
  <2>5. rows' = [rows EXCEPT ![r] = x]
    BY <2>3
  <2> QED  BY <1>5, <2>1, <2>2, <2>4, <2>5
<1> QED  BY <1>7, <1>8

\* A program that ends, or a classic draft that was reported, is dispatched.
LEMMA EndsKeepMail ==
  ASSUME IntakeInv, NEW t \in Task, ProgramEnds(t) \/ Reported(t)
  PROVE  IntakeInv'
<1> DEFINE old == tasks[t]
           r == old.row
<1>1. /\ old \in WorkRow /\ Placed(old, rows) /\ Tidy
      /\ \A s \in DOMAIN rows : rows[s] \in MailRow
  BY MailRecords DEF IntakeInv
<1>2. old.step \in {"program", "repair", "report"} /\ r # 0
  BY <1>1 DEF ProgramEnds, Reported, InStep, Held, Placed
<1>3. r \in DOMAIN rows /\ rows[r].status # "error"
  BY <1>1, <1>2 DEF Placed
<1>4. r \notin tasks["retry"].todo /\ r \notin old.todo
  BY <1>1, <1>3 DEF Tidy, Placed, Task
<1>5. rows = [rows EXCEPT ![r] = rows[r]]
  BY <1>1, <1>3 DEF Tidy
<1>6. /\ Dispatch(t, r, rows, old.todo)
      /\ UNCHANGED <<daemonVars, mishaps, strays, crossings, answers, skipping>>
  BY DEF ProgramEnds, Reported, Held
<1>7. Dispatch(t, r, [rows EXCEPT ![r] = rows[r]], old.todo)
  BY <1>5, <1>6
<1>8. InPlay(r) /\ ~Dead(rows[r]) /\ rows[r] \in MailRow /\ old.todo \in SUBSET Row
  BY <1>1, <1>3 DEF InPlay, Dead, WorkRow
<1> HIDE DEF old, r
<1>9. old.todo \subseteq tasks[t].todo /\ tasks[t].row = r
  BY DEF old, r
<1>10. r \in tasks["retry"].todo => t = "retry"
  BY <1>4
<1>11. tasks[t].row = r \/ (rows[r].status = "error" /\ tasks[t].row = 0)
  BY <1>9
<1> DEFINE y == rows[r]
<1>12. y \in MailRow /\ y.mail = rows[r].mail /\ y.draftId = rows[r].draftId
       /\ y.drafts = rows[r].drafts /\ y.lost = rows[r].lost /\ Dispatch(t, r, [rows EXCEPT ![r] = y], old.todo)
  BY <1>7, <1>8
<1> HIDE DEF y
<1> QED  BY <1>3, <1>4, <1>6, <1>8, <1>9, <1>10, <1>11, <1>12, DispatchKeepsMail


-----------------------------------------------------------------------------
(* Steps that insert a row, and a program that fails after its draft.      *)

\* What one new row, or one task that starts afresh, adds to a weight.
LEMMA Adds ==
  ASSUME Tidy, Tidy', NEW m, NEW k, NEW n, NEW t
  PROVE  /\ Live(rows', tasks', m, k) \subseteq Live(rows, tasks, m, k) \cup {n}
            /\ t \in Early(tasks, m) /\ Early(tasks', m) \subseteq Early(tasks, m) \ {t}
               => Weight(rows', tasks', m, k) <= Weight(rows, tasks, m, k)
         /\ Live(rows', tasks', m, k) \subseteq Live(rows, tasks, m, k) \cup {n}
            /\ Early(tasks', m) \subseteq Early(tasks, m)
               => Weight(rows', tasks', m, k) <= Weight(rows, tasks, m, k) + 1
         /\ Live(rows', tasks', m, k) \subseteq Live(rows, tasks, m, k)
            /\ Early(tasks', m) \subseteq Early(tasks, m) \cup {t}
               => Weight(rows', tasks', m, k) <= Weight(rows, tasks, m, k) + 1
<1> DEFINE L == Live(rows, tasks, m, k)
           E == Early(tasks, m)
           L2 == Live(rows', tasks', m, k)
           E2 == Early(tasks', m)
<1>1. /\ IsFiniteSet(L) /\ IsFiniteSet(E) /\ Cardinality(L) \in Nat /\ Cardinality(E) \in Nat
      /\ Cardinality(L2) \in Nat /\ Cardinality(E2) \in Nat
  BY Finite DEF Tidy
<1>2. Weight(rows, tasks, m, k) = Cardinality(L) + Cardinality(E)
      /\ Weight(rows', tasks', m, k) = Cardinality(L2) + Cardinality(E2)
  BY DEF Weight
<1> HIDE DEF L, E, L2, E2
<1>3. L2 \subseteq L \cup {n} => Cardinality(L2) <= Cardinality(L) + 1
  BY <1>1, OneMore
<1>4. E2 \subseteq E \cup {t} => Cardinality(E2) <= Cardinality(E) + 1
  BY <1>1, OneMore
<1>5. (L2 \subseteq L => Cardinality(L2) <= Cardinality(L)) /\ (E2 \subseteq E => Cardinality(E2) <= Cardinality(E))
  BY <1>1, FS_Subset
<1>6. t \in E /\ E2 \subseteq E \ {t} => Cardinality(E2) <= Cardinality(E) - 1
  BY <1>1, OneLess
<1>7. L2 \subseteq L \cup {n} /\ t \in E /\ E2 \subseteq E \ {t} => Cardinality(L2) + Cardinality(E2) <= Cardinality(L) + Cardinality(E)
  BY <1>1, <1>3, <1>6
<1>8. L2 \subseteq L \cup {n} /\ E2 \subseteq E => Cardinality(L2) + Cardinality(E2) <= Cardinality(L) + Cardinality(E) + 1
  BY <1>1, <1>3, <1>5
<1>9. L2 \subseteq L /\ E2 \subseteq E \cup {t} => Cardinality(L2) + Cardinality(E2) <= Cardinality(L) + Cardinality(E) + 1
  BY <1>1, <1>4, <1>5
<1> QED  BY <1>2, <1>7, <1>8, <1>9 DEF L, E, L2, E2

\* A new row of a task's mail: closed, or instead of the task's being early,
\* or excused.
LEMMA InsertsEven ==
  ASSUME IntakeInv, Sides', NEW t \in Task, NEW w \in WorkRow, tasks' = [tasks EXCEPT ![t] = w],
         NEW x \in MailRow, RowAdded(x), Drawn(x), Placed(w, rows'), w.todo = tasks[t].todo,
         w.row \in {0, Len(rows) + 1}, w.row # 0 \/ w.step = "rest",
         tasks[t].step # "rest", x.mail = tasks[t].mail,
         UNCHANGED <<answers, crossings>>, finished \subseteq finished',
         \A m \in Mail \ {x.mail} : strays'[m] = strays[m],
         \/ strays'[x.mail] = strays[x.mail] /\ tasks[t].row = 0
         \/ strays'[x.mail] = strays[x.mail] + 1
  PROVE  IntakeInv'
<1>1. Tidy /\ Sides
  BY DEF IntakeInv
<1>2. TaskIs(t, w)
  BY <1>1, Moved
<1>3. Tidy'
  <2>1. t = "poll" => w.todo = {}
    BY <1>1 DEF Tidy
  <2> QED  BY <1>1, <1>2, <2>1, InsertsFit
<1>4. ASSUME NEW m \in Mail  PROVE Balanced(m)'
  <2>1. /\ answers'[m] = answers[m] /\ crossings[m] <= crossings'[m] /\ strays[m] \in Nat
        /\ strays[m] <= strays'[m]
    <3>1. crossings[m] \in Nat /\ strays[m] \in Nat
      BY <1>1 DEF Sides
    <3>2. strays'[m] \in {strays[m], strays[m] + 1}
      BY <1>4
    <3> QED  BY <3>1, <3>2
  <2>2. Over(m) => Over(m)'
    BY <1>1, StaysOver
  <2>3. /\ Early(tasks', m) \subseteq Early(tasks, m) \ {t}
        /\ m = x.mail /\ tasks[t].row = 0 => t \in Early(tasks, m)
    <3>1. Early(tasks', m) \subseteq Early(tasks, m) \ {t}
      BY <1>2, MovesEarly
    <3> QED  BY <3>1 DEF Early
  <2>4. \A k \in Counts :
           /\ Live(rows', tasks', m, k) \subseteq Live(rows, tasks, m, k) \cup {Len(rows) + 1}
           /\ m # x.mail => Live(rows', tasks', m, k) \subseteq Live(rows, tasks, m, k)
    BY <1>1, <1>2, InsertsLive
  <2>5. CASE m # x.mail
    BY <1>3, <2>1, <2>2, <2>3, <2>4, <2>5, OtherMailEven
  <2>6. CASE m = x.mail
    <3>1. ASSUME NEW k \in Counts
          PROVE  Weight(rows', tasks', m, k) <= Weight(rows, tasks, m, k) + (strays'[m] - strays[m])
      <4>1. Weight(rows, tasks, m, k) \in Nat /\ Weight(rows', tasks', m, k) \in Nat
        BY <1>1, <1>3, Finite DEF Tidy
      <4>2. CASE strays'[m] = strays[m] /\ tasks[t].row = 0
        <5>1. Weight(rows', tasks', m, k) <= Weight(rows, tasks, m, k)
          BY <1>1, <1>3, <2>3, <2>4, <2>6, <4>2, Adds
        <5> QED  BY <2>1, <4>1, <4>2, <5>1
      <4>3. CASE strays'[m] = strays[m] + 1
        <5>1. Weight(rows', tasks', m, k) <= Weight(rows, tasks, m, k) + 1
          BY <1>1, <1>3, <2>3, <2>4, Adds
        <5> QED  BY <2>1, <4>1, <4>3, <5>1
      <4> QED  BY <2>6, <4>2, <4>3
    <3> QED  BY <1>3, <2>1, <2>2, <3>1, WeighsEven
  <2> QED  BY <2>5, <2>6
<1> QED  BY <1>3, <1>4 DEF IntakeInv

\* A row as it is inserted is well typed, and a draft of it is yet to come.
LEMMA NewRowFits ==
  ASSUME IntakeInv, NEW m \in Mail, NEW status \in Open \cup {"skipped", "flagged"},
         NEW drafted \in BOOLEAN
  PROVE  /\ NewRow(m, status, drafted) \in MailRow /\ Drawn(NewRow(m, status, drafted))
         /\ NewRow(m, status, drafted).mail = m /\ NewRow(m, status, drafted).status = status
         /\ NewRow(m, status, drafted).draftId = FALSE
<1>1. now \in 0 .. MaxNow /\ MaxAttempts \in Nat \ {0}
  BY MailRecords
<1>2. 0 \in 0 .. MaxAttempts
  BY <1>1
<1>3. NewRow(m, status, drafted) \in MailRow
  BY <1>1, <1>2 DEF NewRow, MailRow, Open
<1>4. Drawn(NewRow(m, status, drafted))
  BY DEF NewRow, Drawn
<1> QED  BY <1>3, <1>4 DEF NewRow

\* A task that rests, or takes its new row, is placed.
LEMMA MakersFit ==
  ASSUME IntakeInv, NEW t \in Task, NEW x \in MailRow, RowAdded(x), NEW w \in WorkRow,
         w.todo = tasks[t].todo,
         \/ w.step = "rest" /\ w.row = 0
         \/ /\ w.step \in {"program", "repair", "report"} /\ w.row = Len(rows) + 1
            /\ w.mail = x.mail /\ x.status # "error" /\ ~x.draftId /\ w.mail \in Mail
  PROVE  Placed(w, rows')
<1>1. DOMAIN rows = 1 .. Len(rows) /\ Len(rows) \in Nat /\ Placed(tasks[t], rows)
  BY MailRecords
<1>2. DOMAIN rows' = DOMAIN rows \cup {Len(rows) + 1} /\ Len(rows) + 1 # 0
  BY <1>1 DEF RowAdded
<1>3. \A s \in w.todo : s \in DOMAIN rows' /\ rows'[s].status = "error" /\ rows'[s].retries < MaxAttempts
  BY <1>1, <1>2 DEF Placed, RowAdded
<1>4. w.row # 0 => rows'[w.row] = x
  BY DEF RowAdded
<1> QED  BY <1>2, <1>3, <1>4 DEF Placed

\* Every way to insert a row keeps the invariant.
LEMMA InsertsKeepMail ==
  ASSUME IntakeInv, NEW t \in Task,
         \/ SetAside(t) /\ ~UNCHANGED rows
         \/ ProgramDrafts(t) \/ ClassicFails(t) \/ ClassicDrafts(t)
  PROVE  IntakeInv'
<1> DEFINE old == tasks[t]
           rest == [AtRest EXCEPT !.todo = old.todo]
<1>1. /\ old \in WorkRow /\ Placed(old, rows) /\ Sides /\ Tidy
      /\ DOMAIN rows = 1 .. Len(rows) /\ Len(rows) \in Nat /\ MaxRows \in Nat
  BY MailRecords DEF IntakeInv
<1>2. old.step \in {"triage", "program", "repair", "classic"}
  BY DEF SetAside, ProgramDrafts, ClassicFails, ClassicDrafts, InStep
<1>3. old.mail \in Mail /\ old.step # "rest"
  BY <1>1, <1>2 DEF Placed
<1>4. rest \in WorkRow /\ rest.step = "rest" /\ rest.row = 0 /\ rest.todo = old.todo
  <2>1. 0 \in 0 .. MaxRows
    BY <1>1
  <2> QED  BY <1>1, <2>1 DEF AtRest, WorkRow
<1>5. /\ UNCHANGED <<now, restarts, answers, crossings, skipping>>
      /\ (UNCHANGED mishaps \/ Mishap)
      /\ finished \subseteq finished' /\ finished' \subseteq finished \cup {old.mail}
  BY DEF SetAside, ProgramDrafts, ClassicFails, ClassicDrafts, daemonVars, Finish, Mine
<1>6. strays' = strays \/ ProgramDrafts(t)
  BY DEF SetAside, ClassicFails, ClassicDrafts
<1>7. /\ strays' \in [Mail -> Nat]
      /\ \A m \in Mail \ {old.mail} : strays'[m] = strays[m]
      /\ \/ strays'[old.mail] = strays[old.mail] /\ old.row = 0
         \/ strays'[old.mail] = strays[old.mail] + 1
  <2>1. strays \in [Mail -> Nat] /\ strays[old.mail] \in Nat
    BY <1>1, <1>3 DEF Sides
  <2>2. CASE ProgramDrafts(t)
    <3>1. strays' = [strays EXCEPT ![old.mail] = @ + (IF old.row = 0 THEN 0 ELSE 1)]
      BY <2>2 DEF ProgramDrafts, Held, Mine
    <3> HIDE DEF old
    <3> QED  BY <1>3, <2>1, <3>1
  <2>3. CASE SetAside(t) \/ ClassicFails(t) \/ ClassicDrafts(t)
    <3>1. old.row = 0
      BY <1>1, <2>3 DEF SetAside, ClassicFails, ClassicDrafts, InStep, Placed
    <3>2. strays' = strays
      BY <2>3 DEF SetAside, ClassicFails, ClassicDrafts
    <3> QED  BY <2>1, <3>1, <3>2
  <2> QED  BY <2>2, <2>3
<1>8. mishaps' \in 0 .. MaxMishaps
  BY <1>1, <1>5, MishapTyped DEF Sides
<1> HIDE DEF old, rest
<1>9. ASSUME NEW status \in Open \cup {"skipped", "flagged"}, NEW drafted \in BOOLEAN,
             Insert(NewRow(old.mail, status, drafted)),
             NEW w \in WorkRow, tasks' = [tasks EXCEPT ![t] = w], w.todo = old.todo,
             \/ w.step = "rest" /\ w.row = 0
             \/ /\ w.step \in {"program", "repair", "report"} /\ w.row = Len(rows) + 1
                /\ w.mail = old.mail /\ status # "error"
      PROVE  IntakeInv'
  <2> DEFINE x == NewRow(old.mail, status, drafted)
  <2>1. /\ x \in MailRow /\ Drawn(x) /\ x.mail = old.mail /\ x.status = status /\ x.draftId = FALSE
    BY <1>3, <1>9, NewRowFits
  <2>2. Insert(x)
    BY <1>9
  <2> HIDE DEF x
  <2>3. RowAdded(x)
    BY <1>1, <2>1, <2>2, Inserted
  <2>4. Placed(w, rows')
    BY <1>3, <1>9, <2>1, <2>3, MakersFit DEF old
  <2>5. Sides'
    <3>1. DOMAIN rows \subseteq DOMAIN rows'
      BY <1>1, <2>3 DEF RowAdded
    <3>2. finished' \subseteq Mail /\ skipping \subseteq DOMAIN rows
      BY <1>1, <1>3, <1>5 DEF Sides
    <3> QED  BY <1>1, <1>5, <1>7, <1>8, <3>1, <3>2 DEF Sides, DaemonTypes
  <2>6. w.row \in {0, Len(rows) + 1} /\ (w.row # 0 \/ w.step = "rest")
    BY <1>1, <1>9
  <2>7. w.todo = tasks[t].todo /\ tasks[t].step # "rest" /\ x.mail = tasks[t].mail
    BY <1>3, <1>9, <2>1 DEF old
  <2>8. /\ \A m \in Mail \ {x.mail} : strays'[m] = strays[m]
        /\ \/ strays'[x.mail] = strays[x.mail] /\ tasks[t].row = 0
           \/ strays'[x.mail] = strays[x.mail] + 1
    BY <1>7, <2>1 DEF old
  <2> QED  BY <1>5, <1>9, <2>1, <2>3, <2>4, <2>5, <2>6, <2>7, <2>8, InsertsEven
<1>10. CASE SetAside(t) /\ ~UNCHANGED rows
  <2>1. PICK status \in {"skipped", "flagged"} : Insert(NewRow(old.mail, status, FALSE))
    BY <1>10 DEF SetAside, Mine, old
  <2>2. tasks' = [tasks EXCEPT ![t] = rest]
    BY <1>10 DEF SetAside, Done, rest, old
  <2> QED  BY <1>4, <1>9, <2>1, <2>2
<1>11. CASE ClassicFails(t)
  <2>1. Insert(NewRow(old.mail, "error", FALSE)) /\ tasks' = [tasks EXCEPT ![t] = rest]
    BY <1>11 DEF ClassicFails, Done, Mine, rest, old
  <2>2. "error" \in Open \cup {"skipped", "flagged"}
    BY DEF Open
  <2> QED  BY <1>4, <1>9, <2>1, <2>2
<1>12. CASE ProgramDrafts(t) \/ ClassicDrafts(t)
  <2> DEFINE step == IF ClassicDrafts(t) THEN "report" ELSE old.step
             w == [old EXCEPT !.step = step, !.row = Len(rows) + 1]
  <2>1. Insert(NewRow(old.mail, "pending", TRUE))
    BY <1>12 DEF ProgramDrafts, ClassicDrafts, Mine, old
  <2>2. Len(rows) + 1 \in 0 .. MaxRows
    <3>1. Len(rows) < MaxRows
      BY <2>1 DEF Insert
    <3> QED  BY <1>1, <3>1
  <2>3. step \in {"program", "repair", "report"}
    BY <1>12 DEF ProgramDrafts, old
  <2>4. /\ w \in WorkRow /\ w.step = step /\ w.row = Len(rows) + 1 /\ w.mail = old.mail
        /\ w.todo = old.todo
    BY <1>1, <2>2, <2>3 DEF WorkRow
  <2>5. tasks' = [tasks EXCEPT ![t] = w]
    <3>1. CASE ClassicDrafts(t)
      BY <3>1 DEF ClassicDrafts, old
    <3>2. CASE ProgramDrafts(t) /\ ~ClassicDrafts(t)
      <4>1. tasks' = [tasks EXCEPT ![t] = [old EXCEPT !.row = Len(rows) + 1]]
        BY <3>2 DEF ProgramDrafts, old
      <4>2. [old EXCEPT !.row = Len(rows) + 1] = w
        BY <1>1, <2>2, <3>2 DEF WorkRow
      <4> QED  BY <4>1, <4>2
    <3> QED  BY <1>12, <3>1, <3>2
  <2>6. "pending" \in Open \cup {"skipped", "flagged"}
    BY DEF Open
  <2> HIDE DEF w, step
  <2> QED  BY <1>9, <2>1, <2>3, <2>4, <2>5, <2>6
<1> QED  BY <1>10, <1>11, <1>12

\* A program that fails after its draft leaves a row and starts afresh: one
\* open row more, with its excuse.
LEMMA StrayKeepsMail ==
  ASSUME IntakeInv, NEW t \in Task, ProgramFails(t), Held(t) # 0
  PROVE  IntakeInv'
<1> DEFINE old == tasks[t]
           m == old.mail
<1>1. /\ old \in WorkRow /\ Placed(old, rows) /\ Sides /\ Tidy /\ MaxRows \in Nat
  BY MailRecords DEF IntakeInv
<1>2. old.row # 0 /\ old.step \in {"program", "repair"} /\ m \in Mail
  BY <1>1 DEF ProgramFails, Held, Placed
<1>3. PICK step \in {"repair", "classic"} :
         tasks' = [tasks EXCEPT ![t] = [@ EXCEPT !.step = step, !.row = 0]]
  BY DEF ProgramFails
<1> DEFINE w == [old EXCEPT !.step = step, !.row = 0]
<1>4. /\ w \in WorkRow /\ w.row = 0 /\ w.mail = m /\ w.todo = old.todo /\ w.step = step
  <2>1. 0 \in 0 .. MaxRows
    BY <1>1
  <2> QED  BY <1>1, <2>1 DEF WorkRow
<1>5. tasks' = [tasks EXCEPT ![t] = w]
  BY <1>3
<1>6. strays' = [strays EXCEPT ![m] = @ + 1]
  BY <1>2 DEF ProgramFails, Held, Mine
<1>7. UNCHANGED <<now, restarts, finished, rows, crossings, answers, skipping>> /\ Mishap
  BY DEF ProgramFails, daemonVars
<1>8. t = "poll" => w.todo = {}
  BY <1>1, <1>4 DEF Tidy
<1> HIDE DEF w, old, m
<1>9. m = tasks[t].mail /\ Placed(tasks[t], rows) /\ w.todo = tasks[t].todo
  BY <1>1, <1>4 DEF m, old
<1>10. TaskIs(t, w)
  BY <1>1, <1>4, <1>5, Moved
<1>11. strays' \in [Mail -> Nat] /\ strays'[m] = strays[m] + 1 /\ strays[m] \in Nat
       /\ \A n \in Mail \ {m} : strays'[n] = strays[n]
  <2>1. strays \in [Mail -> Nat] /\ strays[m] \in Nat
    BY <1>1, <1>2 DEF Sides
  <2> QED  BY <1>2, <1>6, <2>1
<1>12. Sides'
  <2>1. mishaps' \in 0 .. MaxMishaps
    BY <1>1, <1>7, MishapTyped DEF Sides
  <2> QED  BY <1>1, <1>7, <1>11, <2>1 DEF Sides, DaemonTypes
<1>13. Tidy'
  <2>1. Placed(w, rows)
    BY <1>2, <1>4, <1>9 DEF Placed
  <2> QED  BY <1>1, <1>4, <1>7, <1>8, <1>10, <2>1, MovesFit
<1>14. ASSUME NEW n \in Mail  PROVE Balanced(n)'
  <2>1. \A k \in Counts : Live(rows', tasks', n, k) \subseteq Live(rows, tasks, n, k)
    BY <1>1, <1>4, <1>7, <1>10, MovesLive
  <2>2. /\ Early(tasks', n) \subseteq Early(tasks, n) \cup {t}
        /\ n # m => Early(tasks', n) \subseteq Early(tasks, n)
    BY <1>4, <1>10, MovesEarly
  <2>3. Over(n) => Over(n)'
    BY <1>1, <1>7, StaysOver
  <2>4. answers'[n] = answers[n] /\ crossings[n] <= crossings'[n]
    <3>1. crossings[n] \in Nat
      BY <1>1 DEF Sides
    <3> QED  BY <1>7, <3>1
  <2>5. CASE n # m
    BY <1>11, <1>12, <1>13, <2>1, <2>2, <2>3, <2>4, <2>5, OtherMailEven
  <2>6. CASE n = m
    <3>1. ASSUME NEW k \in Counts
          PROVE  Weight(rows', tasks', n, k) <= Weight(rows, tasks, n, k) + (strays'[n] - strays[n])
      <4>1. Weight(rows', tasks', n, k) <= Weight(rows, tasks, n, k) + 1
        BY <1>1, <1>13, <2>1, <2>2, Adds
      <4>2. strays'[n] - strays[n] = 1
        BY <1>11, <2>6
      <4> QED  BY <4>1, <4>2
    <3>2. strays[n] <= strays'[n]
      BY <1>11, <2>6
    <3> QED  BY <1>12, <1>13, <2>3, <2>4, <3>1, <3>2, WeighsEven
  <2> QED  BY <2>5, <2>6
<1> QED  BY <1>12, <1>13, <1>14 DEF IntakeInv

-----------------------------------------------------------------------------
(* The retry tick. *)

\* Listing puts rows on the list that can be retried.
LEMMA ListingKeepsMail ==
  ASSUME IntakeInv, ListRetries
  PROVE  IntakeInv'
<1> DEFINE old == tasks["retry"]
           due == {r \in DOMAIN rows : Retryable(r)}
           first == {r \in due : Cardinality({s \in due : s < r}) < RetryBatch}
           w == [old EXCEPT !.todo = first]
<1>1. /\ old \in WorkRow /\ Placed(old, rows) /\ Sides /\ Tidy /\ "retry" \in Task
      /\ DOMAIN rows = 1 .. Len(rows) /\ Len(rows) \in Nat /\ Len(rows) <= MaxRows /\ MaxRows \in Nat
  BY MailRecords DEF IntakeInv, Task
<1>2. first \subseteq due /\ due \subseteq DOMAIN rows
      /\ \A r \in first : rows[r].status = "error" /\ rows[r].retries < MaxAttempts
  BY DEF Retryable
<1>3. old.step = "rest" /\ tasks' = [tasks EXCEPT !["retry"] = w]
      /\ UNCHANGED <<now, restarts, finished, rows, mishaps, strays, crossings, answers, skipping>>
  BY DEF ListRetries, InStep, daemonVars
<1> HIDE DEF due, first
<1>4. first \subseteq Row
  BY <1>1, <1>2 DEF Row
<1>5. w \in WorkRow /\ w.step = "rest" /\ w.row = old.row /\ w.todo = first
  BY <1>1, <1>3, <1>4 DEF WorkRow
<1>6. old.row = 0
  BY <1>1, <1>3 DEF Placed
<1> HIDE DEF old, w
<1>7. Placed(w, rows)
  BY <1>2, <1>5, <1>6 DEF Placed
<1>8. w.row \in {0, tasks["retry"].row} /\ w.step = "rest"
  BY <1>5, <1>6
<1>9. Sides' /\ finished \subseteq finished' /\ UNCHANGED <<rows, answers, strays, crossings>>
  BY <1>1, <1>3 DEF Sides, DaemonTypes
<1> QED  BY <1>1, <1>3, <1>5, <1>7, <1>8, <1>9, MovesEven

\* What is known of a row the retry tick comes to.
LEMMA ListedIsRetryable ==
  ASSUME IntakeInv, InStep("retry", "rest"), NEW r \in tasks["retry"].todo
  PROVE  /\ r \in DOMAIN rows /\ r \in Row /\ rows[r] \in MailRow /\ rows[r].status = "error"
         /\ rows[r].retries + 1 \in 0 .. MaxAttempts /\ rows[r].retries < MaxAttempts
         /\ tasks["retry"] \in WorkRow /\ tasks["retry"].row = 0 /\ Drawn(rows[r])
         /\ InPlay(r) /\ ~Dead(rows[r])
<1>1. /\ "retry" \in Task /\ tasks["retry"] \in WorkRow /\ Placed(tasks["retry"], rows)
      /\ MaxAttempts \in Nat /\ \A s \in DOMAIN rows : Drawn(rows[s]) /\ rows[s] \in MailRow
  BY MailRecords DEF Task, IntakeInv, Tidy
<1>2. /\ r \in DOMAIN rows /\ rows[r].status = "error" /\ rows[r].retries < MaxAttempts
      /\ tasks["retry"].row = 0
  BY <1>1 DEF Placed, InStep
<1>3. rows[r] \in MailRow /\ r \in Row
  BY <1>1, <1>2 DEF WorkRow
<1>4. rows[r].retries \in 0 .. MaxAttempts
  BY <1>3 DEF MailRow
<1>5. rows[r].retries \in Nat
  BY <1>1, <1>4
<1>6. rows[r].retries + 1 \in 0 .. MaxAttempts /\ ~(rows[r].retries >= MaxAttempts)
  BY <1>1, <1>2, <1>5
<1> QED  BY <1>1, <1>2, <1>3, <1>6 DEF InPlay, Dead

\* A retry of a row with a draft dispatches it; one without retires its row and
\* takes its mail up if nothing else is open for it.
LEMMA RetryKeepsMail ==
  ASSUME IntakeInv, Retry
  PROVE  IntakeInv'
<1>1. PICK r \in tasks["retry"].todo :
        LET rest == tasks["retry"].todo \ {r}
            m == rows[r].mail
            retired == [Attempted(r) EXCEPT ![r].status = "superseded"] IN
        /\ InStep("retry", "rest")
        /\ \/ /\ rows[r].drafted
              /\ Dispatch("retry", r, Attempted(r), rest)
              /\ UNCHANGED strays
           \/ /\ ~rows[r].drafted
              /\ rows' = retired
              /\ IF FreeIn(m, retired)
                 THEN /\ TakeUp("retry", m, rest)
                      /\ strays' = [strays EXCEPT ![m] = @ + Overlaps("retry", m)]
                 ELSE /\ tasks' = [tasks EXCEPT !["retry"].todo = rest]
                      /\ UNCHANGED strays
              /\ UNCHANGED finished
        /\ UNCHANGED <<daemonVars, mishaps, crossings, answers, skipping>>
  BY DEF Retry
<1> DEFINE old == tasks["retry"]
           rest == old.todo \ {r}
           m == rows[r].mail
           y == [rows[r] EXCEPT !.retries = rows[r].retries + 1, !.touched = now,
                                !.status = IF rows[r].retries + 1 >= MaxAttempts
                                           THEN "permanent_error" ELSE rows[r].status]
<1>2. /\ r \in DOMAIN rows /\ r \in Row /\ rows[r] \in MailRow /\ rows[r].status = "error"
      /\ rows[r].retries + 1 \in 0 .. MaxAttempts /\ rows[r].retries < MaxAttempts
      /\ old \in WorkRow /\ old.row = 0 /\ Drawn(rows[r])
      /\ InPlay(r) /\ ~Dead(rows[r])
  BY <1>1, ListedIsRetryable
<1>3. /\ "retry" \in Task /\ now \in 0 .. MaxNow /\ Sides /\ Tidy /\ Placed(old, rows)
      /\ MaxRows \in Nat /\ \A s \in DOMAIN rows : rows[s] \in MailRow /\ s # 0
  BY MailRecords DEF Task, IntakeInv
<1>4. /\ y \in MailRow /\ y.mail = m /\ y.draftId = rows[r].draftId
      /\ y.drafts = rows[r].drafts /\ y.lost = rows[r].lost
  BY <1>2, <1>3 DEF MailRow, Open
<1>5. Attempted(r) = [rows EXCEPT ![r] = y]
  BY DEF Attempted
<1>6. rest \in SUBSET Row /\ rest \subseteq old.todo /\ r \notin rest
  BY <1>2 DEF WorkRow
<1>7. UNCHANGED <<daemonVars, mishaps, crossings, answers, skipping>>
  BY <1>1
<1>8. CASE rows[r].drafted
  <2>1. Dispatch("retry", r, Attempted(r), rest) /\ UNCHANGED strays
    BY <1>1, <1>8
  <2> HIDE DEF y, rest
  <2>2. Dispatch("retry", r, [rows EXCEPT ![r] = y], rest)
    BY <1>5, <2>1
  <2> QED  BY <1>2, <1>3, <1>4, <1>6, <1>7, <2>1, <2>2, DispatchKeepsMail
<1>9. CASE ~rows[r].drafted
  <2> DEFINE x == [y EXCEPT !.status = "superseded"]
             retired == [rows EXCEPT ![r] = x]
  <2>1. /\ x \in MailRow /\ x.mail = m /\ x.draftId = rows[r].draftId /\ x.status = "superseded"
        /\ x.drafts = rows[r].drafts /\ x.lost = rows[r].lost
    BY <1>4 DEF MailRow
  <2>2. [Attempted(r) EXCEPT ![r].status = "superseded"] = retired
    BY <1>2, <1>5
  <2>3. /\ rows' = retired /\ finished' = finished
        /\ IF FreeIn(m, retired)
           THEN /\ TakeUp("retry", m, rest)
                /\ strays' = [strays EXCEPT ![m] = @ + Overlaps("retry", m)]
           ELSE /\ tasks' = [tasks EXCEPT !["retry"].todo = rest]
                /\ UNCHANGED strays
    BY <1>1, <1>9, <2>2
  <2> DEFINE w == IF FreeIn(m, retired)
                  THEN [step |-> "triage", mail |-> m, row |-> 0, todo |-> rest]
                  ELSE [old EXCEPT !.todo = rest]
  <2>4. /\ w \in WorkRow /\ w.row = 0 /\ w.todo = rest
        /\ w.step = (IF FreeIn(m, retired) THEN "triage" ELSE "rest")
        /\ (FreeIn(m, retired) => w.mail = m)
    <3>1. m \in Mail /\ 0 \in 0 .. MaxRows /\ old.step = "rest"
      BY <1>1, <1>2, <1>3 DEF MailRow, InStep
    <3> QED  BY <1>2, <1>6, <3>1 DEF WorkRow
  <2>5. tasks' = [tasks EXCEPT !["retry"] = w]
    BY <2>3 DEF TakeUp
  <2>6. Drawn(x)
    BY <1>2, <2>1 DEF Drawn
  <2>7. rows' = [rows EXCEPT ![r] = x]
    BY <2>3
  <2>8. m \in Mail
    BY <1>2 DEF MailRow
  <2> HIDE DEF x, w, y
  <2>9. RowIs(r, x)
    BY <1>2, <1>3, <2>1, <2>7, Rewritten
  <2>10. TaskIs("retry", w)
    BY <1>3, <2>4, <2>5, Moved
  <2>11. Placed(w, rows')
    <3>1. \A s \in w.todo : s \in DOMAIN rows' /\ rows'[s].status = "error" /\ rows'[s].retries < MaxAttempts
      <4>1. \A s \in rest : s \in DOMAIN rows /\ s # r /\ rows[s].status = "error" /\ rows[s].retries < MaxAttempts
        BY <1>3 DEF Placed
      <4>2. DOMAIN rows' = DOMAIN rows
        BY <2>7
      <4> QED  BY <2>4, <2>9, <4>1, <4>2 DEF RowIs
    <3>2. w.step \in {"triage", "rest"} /\ (w.step # "rest" => w.mail \in Mail)
      BY <2>4, <2>8
    <3> QED  BY <2>4, <3>1, <3>2 DEF Placed
  <2>12. Tidy'
    <3>1. r \notin w.todo
      BY <2>4
    <3>2. x.draftId = rows[r].draftId /\ (x.status = "error" => x.draftId \/ rows[r].status = "error")
      BY <1>2, <2>1
    <3>3. w.row \in {0, old.row}
      BY <2>4
    <3> QED  BY <1>2, <1>3, <2>1, <2>4, <2>6, <2>9, <2>10, <2>11, <3>1, <3>2, <3>3, WritesFit
  <2>13. \A n \in Mail, k \in Counts : Live(rows', tasks', n, k) \subseteq Live(rows, tasks, n, k)
    <3>1. w.row \in {0, old.row, r}
      BY <2>4
    <3> QED  BY <1>2, <1>3, <2>1, <2>4, <2>9, <2>10, <3>1, WritesLive
  <2>14. \A n \in Mail : Over(n) => Over(n)'
    BY <1>2, <1>3, <2>1, <2>3, <2>9, StaysOver
  <2>15. \A n \in Mail : crossings[n] <= crossings'[n]
    <3>1. \A n \in Mail : crossings[n] \in Nat
      BY <1>3 DEF Sides
    <3> QED  BY <1>7, <3>1
  <2>16. CASE FreeIn(m, retired)
    <3>1. strays' = [strays EXCEPT ![m] = @ + Overlaps("retry", m)]
      BY <2>3, <2>16
    <3>2. Overlaps("retry", m) \in Nat
      BY DEF Overlaps
    <3>3. strays' \in [Mail -> Nat] /\ strays'[m] = strays[m] + Overlaps("retry", m)
          /\ \A n \in Mail \ {m} : strays'[n] = strays[n]
      <4>1. strays \in [Mail -> Nat] /\ strays[m] \in Nat
        BY <1>3, <2>8 DEF Sides
      <4> QED  BY <2>8, <3>1, <3>2, <4>1
    <3>4. Sides'
      <4>1. DOMAIN rows' = DOMAIN rows
        BY <2>7
      <4> QED  BY <1>3, <1>7, <2>3, <3>3, <4>1 DEF Sides, DaemonTypes, daemonVars
    <3>5. ASSUME NEW n \in Mail, n # m  PROVE Balanced(n)'
      <4>1. Early(tasks', n) \subseteq Early(tasks, n)
        BY <1>3, <2>4, <2>10, <2>16, <3>5, MovesEarly
      <4>2. answers'[n] = answers[n] /\ strays'[n] = strays[n]
        BY <1>7, <3>3, <3>5
      <4> QED  BY <2>12, <2>13, <2>14, <2>15, <3>4, <4>1, <4>2, OtherMailEven
    <3>6. ASSUME NEW n \in Mail, n = m  PROVE Balanced(n)'
      <4>1. DOMAIN rows' = DOMAIN rows /\ \A s \in DOMAIN rows : rows'[s].mail = rows[s].mail
        BY <2>1, <2>7, <2>9 DEF RowIs
      <4>2. m \notin finished /\ \A s \in DOMAIN rows' : rows'[s].mail = m => rows'[s].status \notin Open
        BY <2>3, <2>16 DEF FreeIn
      <4>3. ~Over(m)
        <5>1. ASSUME NEW s \in DOMAIN rows, rows[s].mail = m, Dead(rows[s])  PROVE FALSE
          <6>1. s # r
            BY <1>2, <5>1
          <6>2. rows'[s] = rows[s] /\ rows[s].status = "error"
            BY <2>9, <5>1, <6>1 DEF RowIs, Dead
          <6> QED  BY <4>1, <4>2, <5>1, <6>2 DEF Open
        <5> QED  BY <4>2, <5>1 DEF Over
      <4>4. w.mail = m /\ w.row = 0 /\ w.step = "triage"
        BY <2>4, <2>16
      <4>5. \A s \in DOMAIN rows : rows[s].mail = m => rows'[s].status \notin Open
        BY <4>1, <4>2
      <4>6. answers' = answers /\ crossings' = crossings
        BY <1>7
      <4>7. strays'[n] = strays[n] + Overlaps("retry", n) /\ "retry" \in Task /\ w \in WorkRow
        BY <1>3, <2>4, <3>3, <3>6
      <4>8. w.mail = n /\ ~Over(n) /\ \A s \in DOMAIN rows : rows[s].mail = n => rows'[s].status \notin Open
        BY <3>6, <4>3, <4>4, <4>5
      <4> HIDE DEF m, rest, old, retired
      <4> QED  BY <2>10, <2>12, <3>4, <3>6, <4>1, <4>4, <4>6, <4>7, <4>8, TakesUpEven
    <3>7. \A n \in Mail : Balanced(n)'
      BY <3>5, <3>6
    <3> QED  BY <2>12, <3>4, <3>7 DEF IntakeInv
  <2>17. CASE ~FreeIn(m, retired)
    <3>1. strays' = strays /\ w.step = "rest"
      BY <2>3, <2>4, <2>17
    <3>2. Sides'
      <4>1. DOMAIN rows' = DOMAIN rows
        BY <2>7
      <4> QED  BY <1>3, <1>7, <2>3, <3>1, <4>1 DEF Sides, DaemonTypes, daemonVars
    <3>3. \A n \in Mail : Early(tasks', n) \subseteq Early(tasks, n)
      BY <1>3, <2>4, <2>10, <3>1, MovesEarly
    <3>4. \A n \in Mail : Balanced(n)'
      BY <1>7, <2>12, <2>13, <2>14, <2>15, <3>1, <3>2, <3>3, RestsEven
    <3> QED  BY <2>12, <3>2, <3>4 DEF IntakeInv
  <2> QED  BY <2>16, <2>17
<1> QED  BY <1>8, <1>9

-----------------------------------------------------------------------------
(* What happens to a pending row. *)

\* A pending row that is touched where it lies fits: no list names it, and the
\* task that may hold it goes on.
LEMMA TouchFits ==
  ASSUME Tidy, UNCHANGED tasks, NEW r \in DOMAIN rows, rows[r].status = "pending",
         NEW x \in MailRow, rows' = [rows EXCEPT ![r] = x], x.mail = rows[r].mail,
         x.draftId = rows[r].draftId, x.drafts = rows[r].drafts, x.lost = rows[r].lost,
         x.status = "error" => x.draftId
  PROVE  /\ RowIs(r, x) /\ TaskIs("poll", tasks["poll"]) /\ Tidy' /\ DOMAIN rows' = DOMAIN rows
         /\ InPlay(r) /\ ~Dead(rows[r]) /\ tasks["poll"] \in WorkRow /\ "poll" \in Task
<1>1. RowIs(r, x)
  BY Rewritten
<1>2. "poll" \in Task /\ "retry" \in Task /\ tasks["poll"] \in WorkRow /\ tasks["poll"].todo = {}
      /\ Placed(tasks["poll"], rows) /\ Placed(tasks["retry"], rows) /\ Drawn(rows[r])
  BY DEF Tidy, Task
<1>3. TaskIs("poll", tasks["poll"])
  BY DEF Tidy, TaskIs
<1>4. DOMAIN rows' = DOMAIN rows
  OBVIOUS
<1>5. InPlay(r) /\ ~Dead(rows[r]) /\ r \notin tasks["retry"].todo
  BY <1>2 DEF InPlay, Dead, Placed
<1>6. Placed(tasks["poll"], rows')
  BY <1>1, <1>2, <1>4 DEF Placed, RowIs
<1>7. Drawn(x)
  BY <1>2 DEF Drawn
<1>8. Tidy'
  BY <1>1, <1>2, <1>3, <1>5, <1>6, <1>7, WritesFit
<1> QED  BY <1>1, <1>2, <1>3, <1>4, <1>5, <1>8

\* The rows are counted that were resolved under a task.
LEMMA CrossingCounts ==
  ASSUME IntakeInv, NEW r \in DOMAIN rows, Crossing(r)
  PROVE  /\ crossings' \in [Mail -> Nat] /\ \A m \in Mail : crossings[m] <= crossings'[m]
         /\ (\E t \in Task : tasks[t].row = r)
               => crossings'[rows[r].mail] = crossings[rows[r].mail] + 1
<1> DEFINE m == rows[r].mail
           held == IF \E t \in Task : Held(t) = r THEN 1 ELSE 0
<1>1. m \in Mail /\ crossings \in [Mail -> Nat] /\ \A n \in Mail : crossings[n] \in Nat
  <2>1. rows[r] \in MailRow
    BY MailRecords
  <2> QED  BY <2>1 DEF MailRow, IntakeInv, Sides
<1>2. crossings' = [crossings EXCEPT ![m] = @ + held] /\ held \in {0, 1}
      /\ ((\E t \in Task : tasks[t].row = r) => held = 1)
  BY DEF Crossing, Held
<1> HIDE DEF held
<1>3. crossings[m] + held \in Nat /\ crossings[m] <= crossings[m] + held
  BY <1>1, <1>2
<1>4. crossings' \in [Mail -> Nat] /\ crossings'[m] = crossings[m] + held
      /\ \A n \in Mail \ {m} : crossings'[n] = crossings[n]
  BY <1>1, <1>2, <1>3
<1>5. ASSUME NEW n \in Mail  PROVE crossings[n] <= crossings'[n]
  <2>1. CASE n = m
    BY <1>3, <1>4, <2>1
  <2>2. CASE n # m
    <3>1. crossings'[n] = crossings[n] /\ crossings[n] \in Nat
      BY <1>1, <1>4, <2>2
    <3> QED  BY <3>1
  <2> QED  BY <2>1, <2>2
<1> QED  BY <1>2, <1>4, <1>5

\* The carousel, a skip, and a send that plainly failed.
LEMMA TouchesKeepMail ==
  ASSUME IntakeInv, NEW r \in Row,
         Carousel(r) \/ Skip(r) \/ (SendFails(r) /\ UNCHANGED answers)
  PROVE  IntakeInv'
<1>1. r \in DOMAIN rows /\ rows[r].status = "pending"
  BY DEF Carousel, Skip, SendFails, OnCard
<1>2. /\ rows[r] \in MailRow /\ now \in 0 .. MaxNow /\ Sides /\ Tidy
  BY <1>1, MailRecords DEF IntakeInv
<1>3. /\ UNCHANGED <<now, restarts, finished, tasks, strays, answers>>
      /\ (UNCHANGED mishaps \/ Mishap)
      /\ (UNCHANGED crossings \/ Crossing(r))
      /\ (UNCHANGED skipping \/ skipping' = skipping \cup {r})
  BY DEF Carousel, Skip, SendFails, daemonVars
<1>4. crossings' \in [Mail -> Nat] /\ \A m \in Mail : crossings[m] <= crossings'[m]
  <2>1. CASE Crossing(r)
    BY <1>1, <2>1, CrossingCounts
  <2>2. CASE UNCHANGED crossings
    <3>1. crossings \in [Mail -> Nat] /\ \A m \in Mail : crossings[m] \in Nat
      BY <1>2 DEF Sides
    <3> QED  BY <2>2, <3>1
  <2> QED  BY <1>3, <2>1, <2>2
<1>5. mishaps' \in 0 .. MaxMishaps
  BY <1>2, <1>3, MishapTyped DEF Sides
<1>6. ASSUME NEW x \in MailRow, rows' = [rows EXCEPT ![r] = x], x.mail = rows[r].mail,
             x.draftId = rows[r].draftId, x.drafts = rows[r].drafts, x.lost = rows[r].lost,
             x.status = "error" => x.draftId
      PROVE  IntakeInv'
  <2>1. /\ RowIs(r, x) /\ TaskIs("poll", tasks["poll"]) /\ Tidy' /\ DOMAIN rows' = DOMAIN rows
        /\ InPlay(r) /\ ~Dead(rows[r]) /\ tasks["poll"] \in WorkRow /\ "poll" \in Task
    BY <1>1, <1>2, <1>3, <1>6, TouchFits
  <2>2. Sides'
    <3>1. skipping' \subseteq DOMAIN rows
      BY <1>1, <1>2, <1>3 DEF Sides
    <3> QED  BY <1>2, <1>3, <1>4, <1>5, <2>1, <3>1 DEF Sides, DaemonTypes
  <2>3. UNCHANGED <<answers, strays>> /\ finished \subseteq finished'
    BY <1>3
  <2>4. \/ tasks["poll"].row # 0
        \/ tasks["poll"].step = "rest"
        \/ tasks["poll"].mail = tasks["poll"].mail /\ tasks["poll"].step # "rest" /\ tasks["poll"].row = 0
    OBVIOUS
  <2>5. tasks["poll"].row \in {0, tasks["poll"].row, r}
    OBVIOUS
  <2> QED  BY <1>1, <1>4, <1>6, <2>1, <2>2, <2>3, <2>4, <2>5, WritesEven
<1>7. CASE Carousel(r)
  <2> DEFINE x == [rows[r] EXCEPT !.shown = 1]
  <2>1. /\ x \in MailRow /\ x.mail = rows[r].mail /\ x.draftId = rows[r].draftId
        /\ x.drafts = rows[r].drafts /\ x.lost = rows[r].lost /\ x.status = "pending"
    BY <1>1, <1>2 DEF MailRow
  <2>2. rows' = [rows EXCEPT ![r] = x]
    BY <1>7 DEF Carousel
  <2> HIDE DEF x
  <2> QED  BY <1>6, <2>1, <2>2
<1>8. CASE Skip(r)
  <2> DEFINE x == [rows[r] EXCEPT !.status = "rejected", !.touched = now]
  <2>1. /\ x \in MailRow /\ x.mail = rows[r].mail /\ x.draftId = rows[r].draftId
        /\ x.drafts = rows[r].drafts /\ x.lost = rows[r].lost /\ x.status = "rejected"
    BY <1>1, <1>2 DEF MailRow
  <2>2. rows' = [rows EXCEPT ![r] = x]
    BY <1>8 DEF Skip
  <2> HIDE DEF x
  <2> QED  BY <1>6, <2>1, <2>2
<1>9. CASE SendFails(r)
  <2>1. rows[r].draftId = TRUE
    BY <1>2, <1>9 DEF SendFails, MailRow
  <2> DEFINE x == [rows[r] EXCEPT !.status = "error", !.touched = now]
             z == [rows[r] EXCEPT !.status = "error", !.touched = now, !.retries = MaxAttempts]
  <2>2. rows' = [rows EXCEPT ![r] = x] \/ rows' = [rows EXCEPT ![r] = z]
    BY <1>9 DEF SendFails
  <2>3. /\ x \in MailRow /\ x.mail = rows[r].mail /\ x.draftId = rows[r].draftId
        /\ x.drafts = rows[r].drafts /\ x.lost = rows[r].lost
    BY <1>2 DEF MailRow, Open
  <2>4. /\ z \in MailRow /\ z.mail = rows[r].mail /\ z.draftId = rows[r].draftId
        /\ z.drafts = rows[r].drafts /\ z.lost = rows[r].lost
    <3>1. MaxAttempts \in 0 .. MaxAttempts
      BY IntakeAssumption
    <3> QED  BY <1>2, <3>1 DEF MailRow, Open
  <2> HIDE DEF x, z
  <2> QED  BY <1>6, <2>1, <2>2, <2>3, <2>4
<1> QED  BY <1>7, <1>8, <1>9

\* A reply that goes out, or may have, leaves play: its row is no longer live
\* unless a task had it in hand, and its mail is over.
LEMMA AnswersKeepMail ==
  ASSUME IntakeInv, NEW r \in Row, Approve(r) \/ (SendFails(r) /\ ~UNCHANGED answers)
  PROVE  IntakeInv'
<1>1. r \in DOMAIN rows /\ rows[r].status = "pending"
  BY DEF Approve, SendFails, OnCard
<1>2. /\ rows[r] \in MailRow /\ now \in 0 .. MaxNow /\ Sides /\ Tidy /\ MaxAttempts \in Nat \ {0}
      /\ \A s \in DOMAIN rows : rows[s] \in MailRow /\ s # 0
  BY <1>1, MailRecords DEF IntakeInv
<1>3. PICK m \in Mail : m = rows[r].mail
  BY <1>2 DEF MailRow
<1>4. /\ UNCHANGED <<now, restarts, tasks, strays, skipping>>
      /\ (UNCHANGED mishaps \/ Mishap)
      /\ (UNCHANGED finished \/ finished' = finished \cup {m})
      /\ Crossing(r)
  BY <1>3 DEF Approve, SendFails, daemonVars, Finish
<1>5. crossings' \in [Mail -> Nat] /\ (\A n \in Mail : crossings[n] <= crossings'[n])
      /\ ((\E t \in Task : tasks[t].row = r) => crossings'[m] = crossings[m] + 1)
  BY <1>1, <1>3, <1>4, CrossingCounts
<1>6. PICK out \in {0, 1} : GoesOut(r, out) /\ (out = 1 \/ ~UNCHANGED answers)
  BY DEF Approve, SendFails
<1>7. answers \in [Mail -> Nat] /\ answers[m] \in Nat
  BY <1>2 DEF Sides
<1>8. answers' = [answers EXCEPT ![m] = @ + out]
  BY <1>3, <1>6 DEF GoesOut
<1>9. answers' \in [Mail -> Nat] /\ answers'[m] = answers[m] + 1
      /\ \A n \in Mail \ {m} : answers'[n] = answers[n]
  <2>1. out = 1
    BY <1>6, <1>7, <1>8
  <2> QED  BY <1>7, <1>8, <2>1
<1> DEFINE sent == [rows[r] EXCEPT !.status = "sent", !.touched = now]
           late == [rows[r] EXCEPT !.status = "error", !.touched = now, !.retries = MaxAttempts]
<1>10. /\ sent \in MailRow /\ sent.mail = m /\ sent.draftId = rows[r].draftId
       /\ sent.drafts = rows[r].drafts /\ sent.lost = rows[r].lost /\ sent.status = "sent"
  BY <1>2, <1>3 DEF MailRow
<1>11. /\ late \in MailRow /\ late.mail = m /\ late.draftId = rows[r].draftId
       /\ late.drafts = rows[r].drafts /\ late.lost = rows[r].lost /\ late.status = "error"
       /\ late.retries = MaxAttempts
  <2>1. MaxAttempts \in 0 .. MaxAttempts
    BY <1>2
  <2> QED  BY <1>2, <1>3, <2>1 DEF MailRow, Open
<1>12. \/ rows' = [rows EXCEPT ![r] = sent] /\ m \in finished'
       \/ rows' = [rows EXCEPT ![r] = late] /\ rows[r].draftId
  BY <1>3 DEF Approve, SendFails, Finish
<1>13. PICK x \in MailRow :
          /\ rows' = [rows EXCEPT ![r] = x] /\ x.mail = rows[r].mail /\ x.draftId = rows[r].draftId
          /\ x.drafts = rows[r].drafts /\ x.lost = rows[r].lost
          /\ x.status = "error" => x.draftId
          /\ \/ x.status = "sent" /\ m \in finished'
             \/ x.status = "error" /\ x.retries = MaxAttempts
  <2> HIDE DEF sent, late
  <2> QED  BY <1>3, <1>10, <1>11, <1>12
<1> HIDE DEF sent, late
<1>14. /\ RowIs(r, x) /\ TaskIs("poll", tasks["poll"]) /\ Tidy' /\ DOMAIN rows' = DOMAIN rows
       /\ InPlay(r) /\ ~Dead(rows[r]) /\ tasks["poll"] \in WorkRow /\ "poll" \in Task
  BY <1>1, <1>2, <1>4, <1>13, TouchFits
<1>15. Sides'
  <2>1. mishaps' \in 0 .. MaxMishaps
    BY <1>2, <1>4, MishapTyped DEF Sides
  <2>2. finished' \subseteq Mail
    BY <1>2, <1>4 DEF Sides
  <2> QED  BY <1>2, <1>4, <1>5, <1>9, <1>14, <2>1, <2>2 DEF Sides, DaemonTypes
<1>16. \A n \in Mail, k \in Counts : Live(rows', tasks', n, k) \subseteq Live(rows, tasks, n, k)
  <2>1. tasks["poll"].row \in {0, tasks["poll"].row, r}
    OBVIOUS
  <2> QED  BY <1>1, <1>2, <1>13, <1>14, <2>1, WritesLive
<1>17. \A n \in Mail : Early(tasks', n) \subseteq Early(tasks, n)
  BY <1>4
<1>18. ASSUME NEW n \in Mail, n # m  PROVE Balanced(n)'
  <2>1. Over(n) => Over(n)'
    <3>1. finished \subseteq finished'
      BY <1>4
    <3> QED  BY <1>1, <1>2, <1>13, <1>14, <3>1, StaysOver
  <2>2. answers'[n] = answers[n] /\ strays'[n] = strays[n]
    BY <1>4, <1>9, <1>18
  <2> QED  BY <1>5, <1>14, <1>15, <1>16, <1>17, <2>1, <2>2, OtherMailEven
<1>19. Over(m)'
  <2>1. rows'[r] = x /\ r \in DOMAIN rows' /\ x.mail = m
    BY <1>1, <1>3, <1>13, <1>14 DEF RowIs
  <2>2. x.status = "error" => x.retries >= MaxAttempts
    BY <1>2, <1>13
  <2> QED  BY <1>13, <2>1, <2>2 DEF Over, Dead
<1>20. Balanced(m)'
  <2> DEFINE high == Weight(rows, tasks, m, MaxAttempts + 1)
             low == Weight(rows, tasks, m, MaxAttempts)
             high2 == Weight(rows', tasks', m, MaxAttempts + 1)
             low2 == Weight(rows', tasks', m, MaxAttempts)
  <2>1. /\ strays[m] \in Nat /\ crossings[m] \in Nat /\ crossings'[m] \in Nat
        /\ crossings[m] <= crossings'[m] /\ strays'[m] = strays[m]
    BY <1>2, <1>4, <1>5 DEF Sides
  <2>2. high \in Nat /\ low \in Nat /\ high2 \in Nat /\ low2 \in Nat
    BY <1>2, <1>14, Finite DEF Tidy
  <2>3. ASSUME NEW k \in Counts
        PROVE  Weight(rows', tasks', m, k) <= Weight(rows, tasks, m, k)
    <3>1. /\ IsFiniteSet(Live(rows, tasks, m, k)) /\ IsFiniteSet(Early(tasks, m))
          /\ Cardinality(Live(rows, tasks, m, k)) \in Nat /\ Cardinality(Early(tasks, m)) \in Nat
          /\ Cardinality(Live(rows', tasks', m, k)) \in Nat /\ Cardinality(Early(tasks', m)) \in Nat
      BY <1>2, <1>14, Finite DEF Tidy
    <3>2. /\ Cardinality(Live(rows', tasks', m, k)) <= Cardinality(Live(rows, tasks, m, k))
          /\ Cardinality(Early(tasks', m)) <= Cardinality(Early(tasks, m))
      BY <1>16, <1>17, <3>1, FS_Subset
    <3> QED  BY <3>1, <3>2 DEF Weight
  <2>4. high2 <= high /\ low2 <= low
    BY <2>3 DEF Counts
  <2>5. low2 <= low - 1 \/ crossings'[m] = crossings[m] + 1
    <3>1. CASE \E t \in Task : tasks[t].row = r
      BY <1>5, <3>1
    <3>2. CASE \A t \in Task : tasks[t].row # r
      <4> DEFINE L == Live(rows, tasks, m, MaxAttempts)
                 L2 == Live(rows', tasks', m, MaxAttempts)
      <4>1. r \in L
        BY <1>1, <1>3 DEF Live
      <4>2. r \notin L2
        <5>1. rows'[r] = x /\ tasks' = tasks
          BY <1>1, <1>4, <1>14 DEF RowIs
        <5>2. ~(MaxAttempts < MaxAttempts)
          BY <1>2
        <5> QED  BY <1>13, <3>2, <5>1, <5>2 DEF Live
      <4>3. L2 \subseteq L \ {r}
        BY <1>16, <4>2 DEF Counts
      <4>4. /\ IsFiniteSet(L) /\ IsFiniteSet(Early(tasks, m)) /\ Cardinality(L) \in Nat
            /\ Cardinality(Early(tasks, m)) \in Nat /\ Early(tasks', m) = Early(tasks, m)
            /\ low = Cardinality(L) + Cardinality(Early(tasks, m))
            /\ low2 = Cardinality(L2) + Cardinality(Early(tasks', m))
        BY <1>2, <1>4, Finite DEF Tidy, Weight
      <4> HIDE DEF L, L2, low, low2
      <4>5. Cardinality(L2) \in Nat /\ Cardinality(L2) <= Cardinality(L) - 1
        BY <4>1, <4>3, <4>4, OneLess
      <4>6. low2 <= low - 1
        BY <4>4, <4>5
      <4> QED  BY <4>6
    <3> QED  BY <3>1, <3>2
  <2>6. Even(high, low, answers[m], strays[m], crossings[m], Over(m))
    BY DEF IntakeInv, Balanced
  <2> HIDE DEF high, low, high2, low2
  <2>7. high <= 1 + strays[m] /\ answers[m] + low <= 1 + strays[m] + crossings[m]
    BY <2>6 DEF Even
  <2>8. high2 <= 1 + strays[m]
    BY <2>1, <2>2, <2>4, <2>7
  <2>9. answers[m] + 1 + low2 <= 1 + strays[m] + crossings'[m]
    BY <1>7, <2>1, <2>2, <2>4, <2>5, <2>7
  <2>10. Even(high2, low2, answers'[m], strays'[m], crossings'[m], Over(m)')
    BY <1>7, <1>9, <1>19, <2>1, <2>8, <2>9 DEF Even
  <2> QED  BY <2>10 DEF Balanced, high2, low2
<1> QED  BY <1>14, <1>15, <1>18, <1>20 DEF IntakeInv

-----------------------------------------------------------------------------
(* The specification. *)

\* What neither writes a row nor answers keeps the mail as it is; tasks may die.
LEMMA StillKeepsMail ==
  ASSUME IntakeInv, Sides', UNCHANGED <<rows, answers, strays, crossings>>,
         finished \subseteq finished', UNCHANGED tasks \/ tasks' = [t \in Task |-> AtRest]
  PROVE  IntakeInv'
<1>1. Tidy /\ Sides /\ MaxRows \in Nat
  BY IntakeAssumption DEF IntakeInv
<1>2. AtRest \in WorkRow
  BY <1>1 DEF AtRest, WorkRow
<1>3. \A t \in Task : tasks'[t] = tasks[t] \/ (tasks'[t] = AtRest /\ tasks'["poll"] = AtRest)
  BY DEF Task
<1>4. tasks' \in [Task -> WorkRow]
  BY <1>1, <1>2 DEF Tidy
<1>5. Tidy'
  <2>1. CASE UNCHANGED tasks
    BY <1>1, <2>1 DEF Tidy, Shared, Placed
  <2>2. CASE tasks' = [t \in Task |-> AtRest]
    <3>1. \A t \in Task : tasks'[t].row = 0 /\ tasks'[t].todo = {} /\ tasks'[t].step = "rest"
      BY <2>2 DEF AtRest
    <3>2. \A t \in Task : Placed(tasks'[t], rows')
      BY <3>1 DEF Placed
    <3>3. Shared'
      BY <3>1 DEF Shared
    <3>4. tasks'["poll"].todo = {}
      BY <3>1 DEF Task
    <3> QED  BY <1>1, <1>4, <3>2, <3>3, <3>4 DEF Tidy
  <2> QED  BY <2>1, <2>2
<1>6. ASSUME NEW m \in Mail
      PROVE  /\ crossings[m] <= crossings'[m] /\ (Over(m) => Over(m)')
             /\ Early(tasks', m) \subseteq Early(tasks, m)
             /\ \A k \in Counts : Live(rows', tasks', m, k) \subseteq Live(rows, tasks, m, k)
  <2>1. crossings[m] <= crossings'[m]
    <3>1. crossings[m] \in Nat
      BY <1>1 DEF Sides
    <3> QED  BY <3>1
  <2>2. Over(m) => Over(m)'
    BY <1>1, StaysOver
  <2>3. \A t \in Task : tasks'[t] = tasks[t] \/ (tasks'[t].step = "rest" /\ tasks'[t].row = 0)
    BY <1>3 DEF AtRest
  <2>4. Early(tasks', m) \subseteq Early(tasks, m)
    BY <2>3 DEF Early
  <2>5. \A r \in DOMAIN rows : r # 0
    BY <1>1 DEF Tidy
  <2>6. \A k \in Counts : Live(rows', tasks', m, k) \subseteq Live(rows, tasks, m, k)
    BY <2>3, <2>5 DEF Live
  <2> QED  BY <2>1, <2>2, <2>4, <2>6
<1>7. \A m \in Mail : Balanced(m)'
  BY <1>5, <1>6, RestsEven
<1> QED  BY <1>5, <1>7 DEF IntakeInv

\* Time, a restart, and the end of a skip.
LEMMA StillSteps ==
  ASSUME IntakeInv,
         \/ UNCHANGED allIntakeVars
         \/ Tick /\ UNCHANGED intakeVars
         \/ IntakeRestart
         \/ \E r \in Row : SkipEnds(r)
  PROVE  IntakeInv'
<1>1. Sides /\ \A s \in DOMAIN rows : rows[s] \in MailRow
  BY MailRecords DEF IntakeInv
<1>2. UNCHANGED <<rows, answers, strays, crossings, mishaps>>
  BY DEF allIntakeVars, intakeVars, IntakeRestart, SkipEnds
<1>3. UNCHANGED tasks \/ tasks' = [t \in Task |-> AtRest]
  BY DEF allIntakeVars, intakeVars, IntakeRestart, SkipEnds
<1>4. skipping' \subseteq skipping
  BY DEF allIntakeVars, intakeVars, IntakeRestart, SkipEnds
<1>5. finished \subseteq finished' /\ finished' \subseteq Mail
  <2>1. CASE \E r \in Row : SkipEnds(r)
    <3>1. PICK r \in Row : SkipEnds(r)
      BY <2>1
    <3>2. r \in DOMAIN rows /\ finished' = finished \cup {rows[r].mail}
      BY <1>1, <3>1 DEF SkipEnds, Finish, Sides
    <3>3. rows[r].mail \in Mail
      BY <1>1, <3>2 DEF MailRow
    <3> QED  BY <1>1, <3>2, <3>3 DEF Sides
  <2>2. CASE UNCHANGED finished
    BY <1>1, <2>2 DEF Sides
  <2> QED  BY <2>1, <2>2 DEF allIntakeVars, intakeVars, IntakeRestart
<1>6. DaemonTypes'
  <2>1. CASE UNCHANGED daemonVars
    BY <1>1, <2>1 DEF Sides, DaemonTypes, daemonVars
  <2>2. CASE Tick
    BY <1>1, <2>2, DaemonAssumption DEF Sides, DaemonTypes, Tick
  <2>3. CASE IntakeRestart
    BY <1>1, <2>3, DaemonAssumption DEF Sides, DaemonTypes, IntakeRestart, Restarts
  <2> QED  BY <2>1, <2>2, <2>3 DEF SkipEnds, allIntakeVars
<1>7. Sides'
  BY <1>1, <1>2, <1>4, <1>5, <1>6 DEF Sides
<1> QED  BY <1>2, <1>3, <1>5, <1>7, StillKeepsMail

\* At the start every row is of another mail and every task is at rest.
LEMMA InitMail == DaemonInit /\ IntakeInit => IntakeInv
<1> SUFFICES ASSUME DaemonInit, IntakeInit  PROVE IntakeInv
  OBVIOUS
<1>1. /\ MaxNow \in Nat /\ MaxRows \in Nat /\ MaxAttempts \in Nat \ {0} /\ MaxMishaps \in Nat
      /\ Invite \subseteq Mail
  BY DaemonAssumption, IntakeAssumption
<1>2. DaemonTypes /\ now \in 0 .. MaxNow
  BY DaemonAssumption DEF DaemonInit, DaemonTypes
<1>3. PICK n \in 0 .. MaxRows : \E old \in [1 .. n -> Invite \ finished] :
         /\ \A i, j \in 1 .. n : old[i] = old[j] => i = j
         /\ rows = [i \in 1 .. n |-> NewRow(old[i], "error", TRUE)]
  BY DEF IntakeInit
<1>4. PICK old \in [1 .. n -> Invite \ finished] :
         /\ \A i, j \in 1 .. n : old[i] = old[j] => i = j
         /\ rows = [i \in 1 .. n |-> NewRow(old[i], "error", TRUE)]
  BY <1>3
<1>5. ASSUME NEW i \in 1 .. n
      PROVE  /\ rows[i] \in MailRow /\ rows[i].mail = old[i] /\ rows[i].draftId = FALSE
             /\ rows[i].drafts = 0 /\ rows[i].lost = 0
  <2>1. old[i] \in Mail /\ rows[i] = NewRow(old[i], "error", TRUE)
    BY <1>1, <1>4
  <2>2. 0 \in 0 .. MaxAttempts
    BY <1>1
  <2> QED  BY <1>2, <2>1, <2>2 DEF NewRow, MailRow, Open
<1>6. n \in Nat /\ n <= MaxRows
  BY <1>1
<1>7. rows \in Seq(MailRow) /\ Len(rows) = n /\ DOMAIN rows = 1 .. n
  <2>1. rows \in [1 .. n -> MailRow]
    BY <1>4, <1>5
  <2> QED  BY <1>6, <2>1
<1>8. \A t \in Task : tasks[t] = AtRest
  BY DEF IntakeInit
<1>9. Tidy
  <2>1. AtRest \in WorkRow /\ Placed(AtRest, rows)
    BY <1>1 DEF AtRest, WorkRow, Placed
  <2>2. tasks \in [Task -> WorkRow] /\ tasks["poll"].todo = {}
    BY <2>1 DEF IntakeInit, AtRest, Task
  <2>3. Shared
    BY <1>8 DEF Shared, AtRest
  <2>4. ASSUME NEW r \in DOMAIN rows  PROVE Drawn(rows[r])
    <3>1. rows[r].draftId = FALSE /\ rows[r].drafts = 0 /\ rows[r].lost = 0
      BY <1>5, <1>7, <2>4
    <3> QED  BY <3>1 DEF Drawn
  <2> QED  BY <1>6, <1>7, <1>8, <2>1, <2>2, <2>3, <2>4 DEF Tidy
<1>10. Sides
  <2>1. /\ finished \subseteq Mail /\ mishaps = 0 /\ strays = [m \in Mail |-> 0]
        /\ crossings = [m \in Mail |-> 0] /\ answers = [m \in Mail |-> 0] /\ skipping = {}
    BY DEF IntakeInit
  <2> QED  BY <1>1, <1>2, <2>1 DEF Sides
<1>11. ASSUME NEW m \in Mail  PROVE Balanced(m)
  <2>1. Early(tasks, m) = {}
    BY <1>8 DEF Early, AtRest
  <2>2. ASSUME NEW k  PROVE Weight(rows, tasks, m, k) \in Nat /\ Weight(rows, tasks, m, k) <= 1
    <3> DEFINE L == Live(rows, tasks, m, k)
    <3>1. ASSUME NEW r \in L, NEW s \in L  PROVE r = s
      <4>1. r \in 1 .. n /\ s \in 1 .. n /\ rows[r].mail = m /\ rows[s].mail = m
        BY <1>7, <3>1 DEF Live
      <4>2. old[r] = old[s]
        BY <1>5, <4>1
      <4> QED  BY <1>4, <4>1, <4>2
    <3>2. Weight(rows, tasks, m, k) = Cardinality(L) + Cardinality({})
      BY <2>1 DEF Weight
    <3> HIDE DEF L
    <3>3. Cardinality({}) = 0
      BY FS_EmptySet
    <3>4. CASE L = {}
      BY <3>2, <3>3, <3>4
    <3>5. CASE L # {}
      <4>1. PICK r \in L : L = {r}
        BY <3>1, <3>5
      <4>2. Cardinality({r}) = 1
        BY FS_Singleton
      <4> QED  BY <3>2, <3>3, <4>1, <4>2
    <3> QED  BY <3>4, <3>5
  <2>3. answers[m] = 0 /\ strays[m] = 0 /\ crossings[m] = 0
    BY DEF IntakeInit
  <2> DEFINE high == Weight(rows, tasks, m, MaxAttempts + 1)
             low == Weight(rows, tasks, m, MaxAttempts)
  <2>4. high \in Nat /\ low \in Nat /\ high <= 1 /\ low <= 1
    BY <2>2
  <2> HIDE DEF high, low
  <2>5. Even(high, low, answers[m], strays[m], crossings[m], Over(m))
    BY <2>3, <2>4 DEF Even
  <2> QED  BY <2>5 DEF Balanced, high, low
<1> QED  BY <1>9, <1>10, <1>11 DEF IntakeInv

\* Every step keeps the invariant.
LEMMA StepMail == IntakeInv /\ [IntakeNext]_allIntakeVars => IntakeInv'
<1> SUFFICES ASSUME IntakeInv, [IntakeNext]_allIntakeVars  PROVE IntakeInv'
  OBVIOUS
<1>1. ASSUME NEW m \in Mail, Poll(m)  PROVE IntakeInv'
  BY <1>1, PollKeepsMail
<1>2. ASSUME NEW t \in Task, PipelineStep(t)  PROVE IntakeInv'
  <2>1. CASE TriageFails(t) \/ WorthAReply(t) \/ EnvelopeKnown(t)
    BY <1>2, <2>1, QuietStepsKeepMail
  <2>2. CASE SetAside(t)
    BY <1>2, <2>2, QuietStepsKeepMail, InsertsKeepMail
  <2>3. CASE ProgramFails(t)
    BY <1>2, <2>3, QuietStepsKeepMail, StrayKeepsMail
  <2>4. CASE ProgramDrafts(t) \/ ClassicFails(t) \/ ClassicDrafts(t)
    BY <1>2, <2>4, InsertsKeepMail
  <2>5. CASE ProgramEnds(t) \/ Reported(t)
    BY <1>2, <2>5, EndsKeepMail
  <2>6. CASE DraftCreated(t) \/ DraftFails(t) \/ CardPosted(t) \/ CardRefused(t)
    BY <1>2, <2>6, HeldWritesKeepMail
  <2> QED  BY <1>2, <2>1, <2>2, <2>3, <2>4, <2>5, <2>6 DEF PipelineStep
<1>3. ASSUME NEW r \in Row, RowStep(r)  PROVE IntakeInv'
  <2>1. CASE Carousel(r) \/ Skip(r) \/ (SendFails(r) /\ UNCHANGED answers)
    BY <1>3, <2>1, TouchesKeepMail
  <2>2. CASE Approve(r) \/ (SendFails(r) /\ ~UNCHANGED answers)
    BY <1>3, <2>2, AnswersKeepMail
  <2>3. CASE SkipEnds(r)
    BY <1>3, <2>3, StillSteps
  <2> QED  BY <1>3, <2>1, <2>2, <2>3 DEF RowStep
<1>4. CASE UNCHANGED allIntakeVars \/ (Tick /\ UNCHANGED intakeVars) \/ IntakeRestart
  BY <1>4, StillSteps
<1> QED  BY <1>1, <1>2, <1>3, <1>4, ListingKeepsMail, RetryKeepsMail DEF IntakeNext

\* The invariant holds of every behaviour.
LEMMA MailInvariant == IntakeSpec => []IntakeInv
  BY InitMail, StepMail, PTL DEF IntakeSpec

\* So do the types.
LEMMA IntakeInvTypes == IntakeInv => IntakeTypes
<1> SUFFICES ASSUME IntakeInv  PROVE IntakeTypes
  OBVIOUS
<1>1. /\ \A t \in Task : tasks[t] \in WorkRow
      /\ \A r \in DOMAIN rows : rows[r] \in MailRow
      /\ DOMAIN rows = 1 .. Len(rows) /\ Len(rows) \in Nat /\ Len(rows) <= MaxRows
      /\ MaxRows \in Nat
  BY MailRecords
<1>2. \A t \in Task : /\ tasks[t].step \in {"rest", "triage", "program", "repair", "classic",
                                           "report", "envelope", "draft", "card"}
                      /\ tasks[t].mail \in Mail \cup {NoMail}
                      /\ tasks[t].row \in 0 .. MaxRows
                      /\ tasks[t].todo \subseteq Row
  BY <1>1 DEF WorkRow
<1>3. DOMAIN rows \subseteq Row
  BY <1>1 DEF Row
<1>4. skipping \subseteq Row
  BY <1>3 DEF IntakeInv, Sides
<1> QED  BY <1>1, <1>2, <1>4 DEF IntakeInv, Sides, IntakeTypes, MailRow

\* The intake's variables keep their types.
THEOREM IntakeTypesHold == IntakeSpec => []IntakeTypes
  BY IntakeInvTypes, MailInvariant, PTL

\* A mail has one open row, or as many more as pipelines that overlapped on it
\* and programs that failed after their draft or made two.
THEOREM OpenRowsAreExcused == IntakeSpec => []OneOpenRow
<1>1. IntakeInv => OneOpenRow
  <2> SUFFICES ASSUME IntakeInv, NEW m \in Mail
               PROVE  Cardinality(OpenRows(m)) <= 1 + strays[m]
    BY DEF OneOpenRow
  <2> DEFINE L == Live(rows, tasks, m, MaxAttempts + 1)
             E == Early(tasks, m)
  <2>1. /\ IsFiniteSet(L) /\ Cardinality(L) \in Nat /\ Cardinality(E) \in Nat
        /\ Weight(rows, tasks, m, MaxAttempts + 1) = Cardinality(L) + Cardinality(E)
    BY Finite DEF IntakeInv, Tidy, Weight
  <2>2. OpenRows(m) \subseteq L
    <3>1. ASSUME NEW r \in DOMAIN rows  PROVE rows[r].retries < MaxAttempts + 1
      <4>1. rows[r] \in MailRow /\ MaxAttempts \in Nat
        BY MailRecords
      <4>2. rows[r].retries \in 0 .. MaxAttempts
        BY <4>1 DEF MailRow
      <4> QED  BY <4>1, <4>2
    <3> QED  BY <3>1 DEF OpenRows, Live, Open
  <2>3. Weight(rows, tasks, m, MaxAttempts + 1) <= 1 + strays[m]
    BY DEF IntakeInv, Balanced, Even
  <2>4. Cardinality(OpenRows(m)) \in Nat /\ Cardinality(OpenRows(m)) <= Cardinality(L)
    <3> HIDE DEF L
    <3>1. IsFiniteSet(OpenRows(m)) /\ Cardinality(OpenRows(m)) <= Cardinality(L)
      BY <2>1, <2>2, FS_Subset
    <3> QED  BY <3>1, FS_CardinalityType
  <2>5. strays[m] \in Nat
    BY DEF IntakeInv, Sides
  <2> HIDE DEF L, E
  <2> QED  BY <2>1, <2>3, <2>4, <2>5
<1> QED  BY <1>1, MailInvariant, PTL

\* A row has one draft in Gmail, and those whose answer was lost.
THEOREM OneDraftEach == IntakeSpec => []OneDraftPerRow
<1>1. IntakeInv => OneDraftPerRow
  <2> SUFFICES ASSUME IntakeInv, NEW r \in DOMAIN rows  PROVE rows[r].drafts <= 1 + rows[r].lost
    BY DEF OneDraftPerRow
  <2>1. rows[r] \in MailRow /\ Drawn(rows[r])
    BY MailRecords DEF IntakeInv, Tidy
  <2>2. rows[r].drafts \in Nat /\ rows[r].lost \in Nat /\ rows[r].draftId \in BOOLEAN
    BY <2>1 DEF MailRow
  <2> QED  BY <2>1, <2>2 DEF Drawn
<1> QED  BY <1>1, MailInvariant, PTL

\* A mail is answered once, but for stray rows and rows resolved under a task.
THEOREM MailsAreAnsweredOnce == IntakeSpec => []AnsweredOnce
<1>1. IntakeInv => AnsweredOnce
  <2> SUFFICES ASSUME IntakeInv, NEW m \in Mail
               PROVE  answers[m] <= 1 + strays[m] + crossings[m]
    BY DEF AnsweredOnce
  <2> DEFINE low == Weight(rows, tasks, m, MaxAttempts)
  <2>1. low \in Nat
    BY Finite DEF IntakeInv, Tidy
  <2>2. answers[m] + low <= 1 + strays[m] + crossings[m]
    BY DEF IntakeInv, Balanced, Even
  <2>3. answers[m] \in Nat /\ strays[m] \in Nat /\ crossings[m] \in Nat
    BY DEF IntakeInv, Sides
  <2> HIDE DEF low
  <2> QED  BY <2>1, <2>2, <2>3
<1> QED  BY <1>1, MailInvariant, PTL

-----------------------------------------------------------------------------
(* The ways in, side by side: each keeps its own invariant, whatever the   *)
(* bounds of the others, and none disturbs the types of the clock.         *)

InboundInv ==
    /\ DaemonTypes
    /\ scope \in {"intake", "retry"} => IntakeInv
    /\ scope \in {"feed", "feeds"} => SocialInv /\ SocialRest
    /\ scope \in {"sync", "syncs"} => JournalInv

\* The clock is well typed in each of them.
LEMMA ClockInEach ==
  (IntakeInv => DaemonTypes) /\ (SocialInv => DaemonTypes) /\ (JournalInv => DaemonTypes)
  BY DEF IntakeInv, Sides, SocialInv, SocialShape, JournalInv

\* Every way in starts as its own specification says.
LEMMA InitInbound == InboundInit => InboundInv
<1> SUFFICES ASSUME InboundInit  PROVE InboundInv
  OBVIOUS
<1>1. DaemonInit /\ IntakeInit /\ SocialInit /\ JournalInit
  BY DEF InboundInit
<1>2. IntakeInv /\ SocialInv /\ SocialRest /\ JournalInv
  BY <1>1, InitMail, InitSocial, InitSocialRest, InitJournal
<1> QED  BY <1>2, ClockInEach DEF InboundInv

\* One way in runs, and keeps its invariant.
LEMMA StepInbound == InboundInv /\ [InboundNext]_allInboundVars => InboundInv'
<1> SUFFICES ASSUME InboundInv, [InboundNext]_allInboundVars  PROVE InboundInv'
  OBVIOUS
<1>m. ASSUME scope \in {"intake", "retry"}, scope' = scope, [IntakeNext]_allIntakeVars
      PROVE  InboundInv'
  <2>1. IntakeInv'
    BY <1>m, StepMail DEF InboundInv
  <2>2. DaemonTypes'
    BY <2>1 DEF IntakeInv, Sides
  <2> QED  BY <1>m, <2>1, <2>2 DEF InboundInv
<1>d. ASSUME scope \in {"feed", "feeds"}, scope' = scope, [SocialNext]_allSocialVars
      PROVE  InboundInv'
  <2>1. SocialInv' /\ SocialRest'
    BY <1>d, StepSocial, StepSocialRest DEF InboundInv, SocialInv
  <2>2. DaemonTypes'
    BY <2>1 DEF SocialInv, SocialShape
  <2> QED  BY <1>d, <2>1, <2>2 DEF InboundInv
<1>j. ASSUME scope \in {"sync", "syncs"}, scope' = scope, [JournalNext]_allJournalVars
      PROVE  InboundInv'
  <2>1. JournalInv'
    BY <1>j, StepJournal DEF InboundInv
  <2>2. DaemonTypes'
    BY <2>1 DEF JournalInv
  <2> QED  BY <1>j, <2>1, <2>2 DEF InboundInv
<1>1. CASE IntakeRuns \/ RetryRuns
  BY <1>1, <1>m DEF IntakeRuns, RetryRuns, Runs
<1>2. CASE FeedRuns \/ FeedsRun
  BY <1>2, <1>d DEF FeedRuns, FeedsRun, Runs
<1>3. CASE SyncRuns \/ TwoSyncsRun
  BY <1>3, <1>j DEF SyncRuns, TwoSyncsRun, Runs
<1>4. CASE UNCHANGED allInboundVars
  <2>1. /\ scope' = scope /\ UNCHANGED allIntakeVars /\ UNCHANGED allSocialVars
        /\ UNCHANGED allJournalVars /\ UNCHANGED daemonVars
    BY <1>4 DEF allInboundVars, allIntakeVars, allSocialVars, allJournalVars
  <2>2. DaemonTypes'
    BY <2>1 DEF InboundInv, DaemonTypes, daemonVars
  <2>3. CASE scope \in {"intake", "retry"} \/ scope \in {"feed", "feeds"} \/ scope \in {"sync", "syncs"}
    BY <1>m, <1>d, <1>j, <2>1, <2>3
  <2> QED  BY <2>1, <2>2, <2>3 DEF InboundInv
<1> QED  BY <1>1, <1>2, <1>3, <1>4 DEF InboundNext

(* Whichever way in runs keeps the types of its variables, of the clock    *)
(* and of the restarts, for every value of the constants.                  *)
THEOREM InboundTypesHold == InboundSpec => []InboundTypes
<1>1. InboundInv => InboundTypes
  <2>1. JournalInv => JournalTypes
    BY DEF JournalInv
  <2> QED  BY <2>1, IntakeInvTypes, SocialInvTypes DEF InboundInv, InboundTypes
<1> QED  BY <1>1, InitInbound, StepInbound, PTL DEF InboundSpec

=============================================================================
