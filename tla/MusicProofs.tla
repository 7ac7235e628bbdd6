----------------------------- MODULE MusicProofs -----------------------------
(* Theorems about MusicResponder, for any rooms, members, bounds and numbers of *)
(* Tracks.  The argument has three layers, each on the one before: what the bot *)
(* knows by itself (BotInv), what is on its way between it and the server *)
(* (SocketInv), and the membership the server holds for it (MembershipInv). *)
EXTENDS MusicResponder, SequenceTheorems, TLAPS

------------------------
(* Queues of entries, and what an event makes of one. *)

\* Whether an entry is in a Queue; no entry is in one twice.
In(e, s) == \E i \in DOMAIN s : s[i] = e
Distinct(s) == \A i, j \in DOMAIN s : s[i] = s[j] => i = j

\* A sequence and what follows its head; a sequence with one element more.
LEMMA HeadAndTail ==
    ASSUME NEW E, NEW s \in Seq(E), s # <<>>
    PROVE  /\ Head(s) \in E /\ Tail(s) \in Seq(E)
           /\ Len(s) \in Nat \ {0} /\ Len(Tail(s)) = Len(s) - 1
           /\ Head(s) = s[1] /\ 1 \in DOMAIN s
           /\ \A i \in DOMAIN Tail(s) : i + 1 \in DOMAIN s /\ Tail(s)[i] = s[i + 1]
           /\ \A i \in DOMAIN s : i = 1 \/ (i - 1 \in DOMAIN Tail(s) /\ Tail(s)[i - 1] = s[i])
  OBVIOUS

LEMMA Appended ==
    ASSUME NEW E, NEW s \in Seq(E), NEW e \in E
    PROVE  /\ Append(s, e) \in Seq(E) /\ Append(s, e) # <<>>
           /\ Len(s) \in Nat /\ Len(Append(s, e)) = Len(s) + 1
           /\ DOMAIN Append(s, e) = DOMAIN s \cup {Len(s) + 1}
           /\ Append(s, e)[Len(s) + 1] = e
           /\ \A i \in DOMAIN s : Append(s, e)[i] = s[i]
  OBVIOUS

\* The Queue after its first Track, and with one Track more.
LEMMA TailEntries ==
    ASSUME NEW s \in Seq(Nat), s # <<>>, Distinct(s)
    PROVE  /\ Tail(s) \in Seq(Nat) /\ Distinct(Tail(s)) /\ ~In(Head(s), Tail(s)) /\ In(Head(s), s)
           /\ \A x : In(x, Tail(s)) => In(x, s)
           /\ \A x : In(x, s) => x = Head(s) \/ In(x, Tail(s))
<1>1. Distinct(Tail(s))
  BY HeadAndTail DEF Distinct
<1>2. ASSUME In(Head(s), Tail(s)) PROVE FALSE
  BY <1>2, HeadAndTail DEF In, Distinct
<1>3. ASSUME NEW x, In(x, Tail(s)) PROVE In(x, s)
  BY <1>3, HeadAndTail DEF In
<1>4. ASSUME NEW x, In(x, s), x # Head(s) PROVE In(x, Tail(s))
  <2>1. PICK i \in DOMAIN s : s[i] = x
    BY <1>4 DEF In
  <2>2. i - 1 \in DOMAIN Tail(s) /\ Tail(s)[i - 1] = x
    BY <1>4, <2>1, HeadAndTail
  <2>3. QED
    BY <2>2 DEF In
<1>5. In(Head(s), s)
  BY HeadAndTail DEF In
<1>6. QED
  BY <1>1, <1>2, <1>3, <1>4, <1>5, HeadAndTail

LEMMA AppendEntries ==
    ASSUME NEW s \in Seq(Nat), Distinct(s), NEW e \in Nat, ~In(e, s)
    PROVE  /\ Append(s, e) \in Seq(Nat) /\ Append(s, e) # <<>> /\ Distinct(Append(s, e))
           /\ \A x : In(x, Append(s, e)) <=> In(x, s) \/ x = e
           /\ Head(Append(s, e)) = IF s = <<>> THEN e ELSE Head(s)
<1>1. Distinct(Append(s, e))
  BY Appended DEF Distinct, In
<1>2. \A x : In(x, Append(s, e)) <=> In(x, s) \/ x = e
  BY Appended DEF In
<1>3. Head(Append(s, e)) = IF s = <<>> THEN e ELSE Head(s)
  BY Appended, HeadAndTail
<1>4. Append(s, e) \in Seq(Nat) /\ Append(s, e) # <<>>
  BY Appended
<1>5. QED
  BY <1>1, <1>2, <1>3, <1>4

\* Two slices around one index.
LEMMA Joined ==
    ASSUME NEW a \in Seq(Nat), NEW b \in Seq(Nat)
    PROVE  /\ a \o b \in Seq(Nat) /\ Len(a \o b) = Len(a) + Len(b) /\ Len(a) \in Nat /\ Len(b) \in Nat
           /\ \A i \in 1..Len(a) : (a \o b)[i] = a[i]
           /\ \A j \in 1..Len(b) : (a \o b)[Len(a) + j] = b[j]
  OBVIOUS

LEMMA SlicesOf ==
    ASSUME NEW s \in Seq(Nat), NEW k \in 2..Len(s)
    PROVE  /\ SubSeq(s, 1, k - 1) \in Seq(Nat) /\ Len(SubSeq(s, 1, k - 1)) = k - 1
           /\ \A i \in 1..(k - 1) : SubSeq(s, 1, k - 1)[i] = s[i]
           /\ SubSeq(s, k + 1, Len(s)) \in Seq(Nat) /\ Len(SubSeq(s, k + 1, Len(s))) = Len(s) - k
           /\ \A i \in 1..(Len(s) - k) : SubSeq(s, k + 1, Len(s))[i] = s[k + i]
  OBVIOUS

\* What is left when the Track at k is taken out.
Spliced(s, k) == SubSeq(s, 1, k - 1) \o SubSeq(s, k + 1, Len(s))

LEMMA Splices ==
    ASSUME NEW s \in Seq(Nat), NEW k \in 2..Len(s)
    PROVE  /\ Spliced(s, k) \in Seq(Nat) /\ Len(Spliced(s, k)) = Len(s) - 1
           /\ \A i \in 1..(Len(s) - 1) : i < k => Spliced(s, k)[i] = s[i]
           /\ \A i \in 1..(Len(s) - 1) : ~(i < k) => Spliced(s, k)[i] = s[i + 1]
<1> DEFINE n == Len(s)
           a == SubSeq(s, 1, k - 1)
           b == SubSeq(s, k + 1, n)
           t == a \o b
<1>1. n \in Nat /\ k \in Nat /\ 2 <= k /\ k <= n
  OBVIOUS
<1>2. a \in Seq(Nat) /\ b \in Seq(Nat)
  BY SlicesOf
<1>3. Len(a) = k - 1 /\ \A i \in 1..(k - 1) : a[i] = s[i]
  BY SlicesOf
<1>4. Len(b) = n - k /\ \A i \in 1..(n - k) : b[i] = s[k + i]
  BY SlicesOf
<1>5. t = Spliced(s, k)
  BY DEF Spliced
<1> HIDE DEF a, b, n
<1>6. /\ t \in Seq(Nat) /\ Len(t) = Len(a) + Len(b)
      /\ \A i \in 1..Len(a) : t[i] = a[i]
      /\ \A j \in 1..Len(b) : t[Len(a) + j] = b[j]
  BY <1>2, Joined
<1> HIDE DEF t
<1>7. Len(t) = n - 1
  BY <1>1, <1>3, <1>4, <1>6
<1>8. ASSUME NEW i \in 1..(n - 1), i < k PROVE t[i] = s[i]
  BY <1>1, <1>8, <1>3, <1>6
<1>9. ASSUME NEW i \in 1..(n - 1), ~(i < k) PROVE t[i] = s[i + 1]
  <2> DEFINE j == i - (k - 1)
  <2>1. j \in 1..(n - k) /\ k + j = i + 1 /\ (k - 1) + j = i
    BY <1>1, <1>9
  <2> HIDE DEF j
  <2>2. t[(k - 1) + j] = b[j]
    BY <1>3, <1>4, <1>6, <2>1
  <2>3. b[j] = s[k + j]
    BY <1>4, <2>1
  <2>4. QED
    BY <2>1, <2>2, <2>3
<1>10. QED
  BY <1>5, <1>6, <1>7, <1>8, <1>9 DEF n

LEMMA RemovedAt ==
    ASSUME NEW s \in Seq(Nat), Distinct(s), NEW k \in DOMAIN s, k # 1
    PROVE  /\ Spliced(s, k) \in Seq(Nat) /\ Spliced(s, k) # <<>> /\ Head(Spliced(s, k)) = Head(s) /\ Distinct(Spliced(s, k))
           /\ \A x : In(x, Spliced(s, k)) => In(x, s)
           /\ \A x : In(x, s) => x = s[k] \/ In(x, Spliced(s, k))
<1> DEFINE n == Len(s)
           t == Spliced(s, k)
<1>1. n \in Nat /\ DOMAIN s = 1..n /\ k \in 2..n
  OBVIOUS
<1>2. t \in Seq(Nat) /\ Len(t) = n - 1
  BY <1>1, Splices
<1>3. DOMAIN t = 1..Len(t)
  BY <1>2
<1>4. t \in Seq(Nat) /\ Len(t) = n - 1 /\ DOMAIN t = 1..(n - 1)
  BY <1>2, <1>3
<1>5. \A i \in 1..(n - 1) : i < k => t[i] = s[i]
  BY <1>1, Splices
<1>6. \A i \in 1..(n - 1) : ~(i < k) => t[i] = s[i + 1]
  BY <1>1, Splices
<1> HIDE DEF n, t
<1>7. t # <<>> /\ Head(t) = Head(s)
  BY <1>5, <1>1, <1>4, HeadAndTail
<1>8. ASSUME NEW i \in 1..(n - 1)
       PROVE  \E p \in 1..n : t[i] = s[p] /\ ((i < k /\ p = i) \/ (~(i < k) /\ p = i + 1))
  BY <1>1, <1>5, <1>6
<1>9. ASSUME NEW i \in 1..(n - 1), NEW j \in 1..(n - 1), t[i] = t[j] PROVE i = j
  <2>1. PICK p \in 1..n : t[i] = s[p] /\ ((i < k /\ p = i) \/ (~(i < k) /\ p = i + 1))
    BY <1>8
  <2>2. PICK q \in 1..n : t[j] = s[q] /\ ((j < k /\ q = j) \/ (~(j < k) /\ q = j + 1))
    BY <1>8
  <2>3. p = q
    BY <1>1, <1>9, <2>1, <2>2 DEF Distinct
  <2>4. QED
    BY <1>1, <2>1, <2>2, <2>3
<1>10. Distinct(t)
  BY <1>4, <1>9 DEF Distinct
<1>11. ASSUME NEW x, In(x, t) PROVE In(x, s)
  BY <1>4, <1>1, <1>8, <1>11 DEF In
<1>12. ASSUME NEW x, In(x, s), x # s[k] PROVE In(x, t)
  <2>1. PICK i \in 1..n : s[i] = x /\ i # k
    BY <1>1, <1>12 DEF In
  <2>2. CASE i < k
    <3>1. i \in 1..(n - 1) /\ t[i] = s[i]
      BY <1>5, <1>1, <2>2
    <3>2. QED
      BY <1>4, <2>1, <3>1 DEF In
  <2>3. CASE i > k
    <3>1. i - 1 \in 1..(n - 1) /\ ~(i - 1 < k) /\ (i - 1) + 1 = i
      BY <1>1, <2>3
    <3>2. t[i - 1] = s[i]
      BY <1>6, <3>1
    <3>3. QED
      BY <1>4, <2>1, <3>1, <3>2 DEF In
  <2>4. QED
    BY <1>1, <2>1, <2>2, <2>3
<1>13. QED
  BY <1>4, <1>7, <1>10, <1>11, <1>12 DEF t

(* What an event makes of a Queue: its head stays, or is followed by another, *)
(* or was the last one. *)
Keeps(st, r) ==
    /\ r.state.entries = <<>> <=> st.entries = <<>>
    /\ st.entries # <<>> => Head(r.state.entries) = Head(st.entries)
    /\ {"load", "unload"} \cap r.effects = {}
    /\ \/ "play" \in r.effects /\ r.state.playing /\ st.entries # <<>>
       \/ "play" \notin r.effects /\ "stop" \in r.effects /\ ~r.state.playing
       \/ {"play", "stop"} \cap r.effects = {} /\ r.state.playing = st.playing

\* Another Track is at the head now.
Starts(st, r) ==
    /\ r.state.entries # <<>>
    /\ "load" \in r.effects /\ {"unload", "stop"} \cap r.effects = {}
    /\ st.entries # <<>> => ~In(Head(st.entries), r.state.entries) /\ r.state.playing = st.playing
    /\ st.entries = <<>> => r.state.playing
    /\ "play" \in r.effects <=> r.state.playing

\* That was the last one.
Empties(st, r) ==
    /\ st.entries # <<>> /\ r.state.entries = <<>> /\ ~r.state.playing
    /\ "unload" \in r.effects /\ {"load", "play"} \cap r.effects = {}

\* It leaves the Grace period alone, and tells the room of whatever it changes.
Plain(st, r) ==
    /\ r.state \in PlaybackState /\ Distinct(r.state.entries)
    /\ r.state.awaitingReturn = st.awaitingReturn
    /\ {"startGracePeriod", "cancelGracePeriod"} \cap r.effects = {}
    /\ "publish" \in r.effects \/ (r.state.entries = st.entries /\ r.state.playing = st.playing)

\* Only what was named is gone.
OnlyGone(st, r, e) ==
    /\ \A x : In(x, r.state.entries) => In(x, st.entries)
    /\ \A x : In(x, st.entries) => x = e \/ In(x, r.state.entries)

LEMMA StateFields ==
    ASSUME NEW st \in PlaybackState
    PROVE  st.entries \in Seq(Nat) /\ st.playing \in BOOLEAN /\ st.log \in 0..LogLimit /\ st.awaitingReturn \in BOOLEAN
  BY DEF PlaybackState

LEMMA LineFits == ASSUME NEW log \in 0..LogLimit PROVE WithLine(log) \in 0..LogLimit
  BY PlaybackAssumption DEF WithLine

LEMMA UnchangedResult ==
    ASSUME NEW st \in PlaybackState, Distinct(st.entries), NEW e
    PROVE  Plain(st, Unchanged(st)) /\ Keeps(st, Unchanged(st)) /\ OnlyGone(st, Unchanged(st), e)
  BY DEF Plain, Keeps, OnlyGone, Unchanged

LEMMA AdvancePastResult ==
    ASSUME NEW st \in PlaybackState, Distinct(st.entries), NEW e, NEW sounding \in BOOLEAN, NEW log \in 0..LogLimit,
           NEW r, r = AdvancePast(st, e, sounding, log)
    PROVE  /\ Plain(st, r) /\ OnlyGone(st, r, e)
           /\ \/ Keeps(st, r)
              \/ st.entries # <<>> /\ Head(st.entries) = e /\ Starts(st, r)
              \/ /\ st.entries # <<>> /\ Head(st.entries) = e /\ Empties(st, r)
                 /\ "stop" \in r.effects <=> sounding
<1>1. CASE st.entries = <<>> \/ Head(st.entries) # e
  BY <1>1, UnchangedResult DEF AdvancePast
<1>2. CASE st.entries # <<>> /\ Head(st.entries) = e
  <2> DEFINE rest == Tail(st.entries)
  <2>1. /\ rest \in Seq(Nat) /\ Distinct(rest) /\ ~In(e, rest)
        /\ \A x : In(x, rest) => In(x, st.entries)
        /\ \A x : In(x, st.entries) => x = e \/ In(x, rest)
    BY <1>2, StateFields, TailEntries
  <2>2. r = IF rest = <<>>
            THEN [state |-> [st EXCEPT !.entries = rest, !.playing = FALSE, !.log = log],
                  effects |-> {"unload", "publish"} \cup (IF sounding THEN {"stop"} ELSE {})]
            ELSE [state |-> [st EXCEPT !.entries = rest, !.log = log],
                  effects |-> {"load", "publish"} \cup (IF st.playing THEN {"play"} ELSE {})]
    BY <1>2 DEF AdvancePast
  <2> HIDE DEF rest
  <2> DEFINE on == IF rest = <<>> THEN FALSE ELSE st.playing
  <2>9. on \in BOOLEAN /\ [st EXCEPT !.entries = rest, !.playing = on, !.log = log] \in PlaybackState
    BY <2>1 DEF PlaybackState
  <2>10. r.state = [st EXCEPT !.entries = rest, !.playing = on, !.log = log]
    <3>1. CASE rest = <<>>
      BY <2>2, <3>1
    <3>2. CASE rest # <<>>
      <4>1. r.state = [st EXCEPT !.entries = rest, !.log = log]
        BY <2>2, <3>2
      <4>2. on = st.playing
        BY <3>2
      <4>3. QED
        BY <4>1, <4>2 DEF PlaybackState
    <3>3. QED
      BY <3>1, <3>2
  <2> HIDE DEF on
  <2>11. /\ r.state \in PlaybackState /\ r.state.entries = rest /\ r.state.awaitingReturn = st.awaitingReturn
         /\ r.state.playing = on
    BY <2>9, <2>10, StateFields DEF PlaybackState
  <2>3. /\ r.state \in PlaybackState /\ r.state.entries = rest /\ r.state.awaitingReturn = st.awaitingReturn
        /\ r.state.playing = IF rest = <<>> THEN FALSE ELSE st.playing
    BY <2>11 DEF on
  <2>4. r.effects = IF rest = <<>> THEN {"unload", "publish"} \cup (IF sounding THEN {"stop"} ELSE {})
                    ELSE {"load", "publish"} \cup (IF st.playing THEN {"play"} ELSE {})
    BY <2>2
  <2>5. Plain(st, r) /\ OnlyGone(st, r, e)
    BY <2>1, <2>3, <2>4 DEF Plain, OnlyGone
  <2>6. CASE rest = <<>>
    BY <1>2, <2>3, <2>4, <2>6, <2>5 DEF Empties
  <2>7. CASE rest # <<>>
    BY <1>2, <2>1, <2>3, <2>4, <2>7, StateFields, <2>5 DEF Starts
  <2>8. QED
    BY <2>6, <2>7
<1>3. QED
  BY <1>1, <1>2

LEMMA AddedResult ==
    ASSUME NEW st \in PlaybackState, Distinct(st.entries), NEW e \in Nat, ~In(e, st.entries),
           NEW r, r = Added(st, e)
    PROVE  /\ Plain(st, r) /\ (Keeps(st, r) \/ Starts(st, r))
           /\ \A x : In(x, st.entries) => In(x, r.state.entries)
           /\ \A x : In(x, r.state.entries) => In(x, st.entries) \/ x = e
<1>1. CASE AdditionRefused(st)
  BY <1>1, UnchangedResult DEF Added, Unchanged
<1>2. CASE ~AdditionRefused(st)
  <2> DEFINE more == Append(st.entries, e)
             on == st.playing \/ st.entries = <<>>
  <2>1. /\ more \in Seq(Nat) /\ more # <<>> /\ Distinct(more)
        /\ \A x : In(x, more) <=> In(x, st.entries) \/ x = e
        /\ Head(more) = IF st.entries = <<>> THEN e ELSE Head(st.entries)
    BY StateFields, AppendEntries
  <2>2. /\ r.state = [st EXCEPT !.entries = more, !.playing = on, !.log = WithLine(st.log)]
        /\ r.effects = IF st.entries = <<>> THEN {"load", "play", "publish"} ELSE {"publish"}
        /\ on \in BOOLEAN
    BY <1>2, StateFields DEF Added
  <2>3. (st.entries # <<>> => on = st.playing) /\ (st.entries = <<>> => on)
    BY StateFields
  <2> HIDE DEF more, on
  <2>4. /\ r.state \in PlaybackState /\ r.state.entries = more /\ r.state.awaitingReturn = st.awaitingReturn
        /\ r.state.playing = on
    BY <2>1, <2>2, StateFields, LineFits DEF PlaybackState
  <2>5. Plain(st, r)
    BY <2>1, <2>2, <2>4 DEF Plain
  <2>6. CASE st.entries = <<>>
    BY <2>1, <2>2, <2>3, <2>4, <2>5, <2>6 DEF Starts
  <2>7. CASE st.entries # <<>>
    BY <2>1, <2>2, <2>3, <2>4, <2>5, <2>7 DEF Keeps
  <2>8. QED
    BY <2>6, <2>7
<1>3. QED
  BY <1>1, <1>2

LEMMA RemovedResult ==
    ASSUME NEW st \in PlaybackState, Distinct(st.entries), NEW e, NEW r, r = Removed(st, e)
    PROVE  /\ Plain(st, r) /\ OnlyGone(st, r, e)
           /\ \/ Keeps(st, r)
              \/ st.entries # <<>> /\ Starts(st, r)
              \/ Empties(st, r) /\ ("stop" \in r.effects <=> st.playing)
<1> DEFINE k == CHOOSE i \in DOMAIN st.entries : st.entries[i] = e
<1>1. CASE \A i \in DOMAIN st.entries : st.entries[i] # e
  BY <1>1, UnchangedResult DEF Removed
<1>2. CASE \E i \in DOMAIN st.entries : st.entries[i] = e
  <2>1. k \in DOMAIN st.entries /\ st.entries[k] = e
    BY <1>2
  <2>2. r = IF k = 1 THEN Skipped(st, e)
            ELSE [state |-> [st EXCEPT !.entries = SubSeq(@, 1, k - 1) \o SubSeq(@, k + 1, Len(@)),
                                       !.log = WithLine(@)],
                  effects |-> {"publish"}]
    BY <1>2 DEF Removed
  <2> HIDE DEF k
  <2>3. CASE k = 1
    BY <2>2, <2>3, StateFields, LineFits, AdvancePastResult DEF Skipped
  <2>4. CASE k # 1
    <3> DEFINE t == Spliced(st.entries, k)
    <3>1. /\ t \in Seq(Nat) /\ t # <<>> /\ Head(t) = Head(st.entries) /\ Distinct(t)
          /\ \A x : In(x, t) => In(x, st.entries)
          /\ \A x : In(x, st.entries) => x = e \/ In(x, t)
      BY <2>1, <2>4, StateFields, RemovedAt
    <3>2. r.state = [st EXCEPT !.entries = t, !.log = WithLine(st.log)] /\ r.effects = {"publish"}
      BY <2>2, <2>4 DEF Spliced
    <3> HIDE DEF t
    <3>3. /\ r.state \in PlaybackState /\ r.state.entries = t /\ r.state.awaitingReturn = st.awaitingReturn
          /\ r.state.playing = st.playing
      BY <3>1, <3>2, StateFields, LineFits DEF PlaybackState
    <3>4. st.entries # <<>>
      BY <2>1, StateFields
    <3>5. QED
      BY <3>1, <3>2, <3>3, <3>4 DEF Plain, OnlyGone, Keeps
  <2>5. QED
    BY <2>3, <2>4
<1>3. QED
  BY <1>1, <1>2

LEMMA PausedResult ==
    ASSUME NEW st \in PlaybackState, Distinct(st.entries), NEW r, r = Paused(st)
    PROVE  Plain(st, r) /\ Keeps(st, r) /\ r.state.entries = st.entries
BY UnchangedResult, StateFields, LineFits DEF Paused, Unchanged, PlaybackState, Plain, Keeps

LEMMA ResumedResult ==
    ASSUME NEW st \in PlaybackState, Distinct(st.entries), NEW r, r = Resumed(st)
    PROVE  Plain(st, r) /\ Keeps(st, r) /\ r.state.entries = st.entries
BY UnchangedResult, StateFields, LineFits DEF Resumed, Unchanged, PlaybackState, Plain, Keeps

LEMMA RosterResult ==
    ASSUME NEW st \in PlaybackState, NEW r, r = RoomEmptied(st) \/ r = ListenerReturned(st)
    PROVE  /\ r.state \in PlaybackState /\ r.state.entries = st.entries /\ r.state.playing = st.playing
           /\ Keeps(st, r) /\ "publish" \notin r.effects
           /\ r = RoomEmptied(st) => /\ r.state.awaitingReturn
                                     /\ "cancelGracePeriod" \notin r.effects
                                     /\ "startGracePeriod" \in r.effects <=> ~st.awaitingReturn
           /\ r = ListenerReturned(st) => ~r.state.awaitingReturn /\ "startGracePeriod" \notin r.effects
<1>1. CASE r = RoomEmptied(st) /\ ~st.awaitingReturn
  BY <1>1 DEF RoomEmptied, PlaybackState, Keeps, ListenerReturned, Unchanged
<1>2. CASE r = ListenerReturned(st) /\ st.awaitingReturn
  BY <1>2 DEF ListenerReturned, PlaybackState, Keeps, RoomEmptied, Unchanged
<1>3. CASE r = Unchanged(st)
  BY <1>3, StateFields DEF Keeps, RoomEmptied, ListenerReturned, Unchanged
<1>4. QED
  BY <1>1, <1>2, <1>3, StateFields DEF RoomEmptied, ListenerReturned
------------------------
(* The inductive invariant. *)

\* The await a request is at says whether there is a Set; whoever waits was asked for.
ChainFits ==
    /\ step \in {"configuring", "makingWay", "ending"} => set = None
    /\ step \in {"joining", "adding", "refused"} => set # None
    /\ step # "ready" => chain # <<>>
    /\ step \in {"resolving", "makingWay", "configuring", "joining", "adding"} => Task.kind = "add"
    /\ closing # None => step \in {"makingWay", "ending"}

\* What the player was asked for, and what of it can be heard.
PlayerFits(s, st) ==
    /\ st.entries # <<>> => s.track = Head(st.entries)
    /\ st.playing => s.requested /\ st.entries # <<>>
    /\ s.requested /\ ~st.playing => s.finished /\ st.entries = <<>>
    /\ s.sounding <=> s.requested /\ ~s.silenced /\ ~s.finished

\* Without a Set nothing is queued; with one, where its request stands says what it is.
SetFits ==
    IF set = None
    THEN playback.entries = <<>> /\ ~playback.playing /\ ~playback.awaitingReturn
    ELSE /\ set.id <= minted.sets
         /\ set.ended <=> step = "refused"
         /\ set.joined <=> step \notin {"joining", "refused"}
         /\ ~set.ended => PlayerFits(set, playback)

EntriesFit ==
    /\ Distinct(playback.entries)
    /\ \A i \in DOMAIN playback.entries : playback.entries[i] <= minted.entries

\* A report of an end is of the Track at the head, or of one already gone; an expiry
\* is of a clock that stopped, or of one replaced since.
TaskFits(task) ==
    /\ task.kind = "ended" =>
          /\ task.set <= minted.sets /\ task.entry <= minted.entries
          /\ SetIs(task.set) /\ In(task.entry, playback.entries) =>
                set.finished /\ task.entry = Head(playback.entries)
    /\ task.kind = "grace" =>
          /\ task.wait <= waits
          /\ task.wait = waits /\ timer # None => ~timer.running

TasksFit == \A i \in DOMAIN chain : TaskFits(chain[i])
TimerFits == timer # None => timer.wait <= waits

\* What the bot knows by itself.
BotInv ==
    /\ TypeOK
    /\ ChainFits
    /\ SetFits
    /\ EntriesFit
    /\ TasksFit
    /\ TimerFits
    /\ FetchFollowsTheQueue
    /\ GraceFollowsTheRoom

------------------------
(* The socket. *)

\* On the socket: the join of the Set, its answer, the snapshots of its room, what the
\* Set publishes.  Whether the server let it in, or is about to have put it out; who
\* is in the room; the Queue as a panel shows it.
JoinAt(i) == i \in DOMAIN toServer /\ toServer[i].kind = "join" /\ toServer[i].set = set.id
AckAt(k) == k \in DOMAIN toBot /\ toBot[k].kind = "joinAck" /\ toBot[k].set = set.id
ShownAt(k) == k \in DOMAIN toBot /\ toBot[k].kind = "snapshot" /\ toBot[k].room = set.room
Word(i) == toServer[i].kind = "publish" /\ toServer[i].room = set.room
Admitted == set.joined \/ \E k \in DOMAIN toBot : AckAt(k) /\ toBot[k].ok
Evicted ==
    \/ \E k \in DOMAIN toBot : toBot[k].kind = "forceLeave" /\ toBot[k].room = set.room
    \/ \E i \in DOMAIN chain : chain[i].kind = "evicted"
Truth == ListenersIn(location, set.room) \cup {Bot}
Current == [entries |-> playback.entries, playing |-> playback.playing]

\* Nobody speaks of a Set that is yet to come.
NumbersFit ==
    /\ \A i \in DOMAIN toServer : toServer[i].kind = "join" => toServer[i].set <= minted.sets
    /\ \A k \in DOMAIN toBot : toBot[k].kind = "joinAck" => toBot[k].set <= minted.sets

\* One question and one answer; after the question only the Set speaks.
JoinFits ==
    /\ \A i \in DOMAIN toServer : JoinAt(i) =>
          /\ step = "joining" /\ toServer[i].room = set.room
          /\ \A k \in DOMAIN toBot : ~AckAt(k)
          /\ \A j \in DOMAIN toServer : j > i => Word(j)
    /\ (\A i \in DOMAIN toServer : ~JoinAt(i)) => \A i \in DOMAIN toServer : Word(i)
    /\ \A k \in DOMAIN toBot : AckAt(k) => step = "joining"
    /\ \A k, l \in DOMAIN toBot : AckAt(k) /\ AckAt(l) => k = l

\* The last word sent is the Queue as it is.
WordFits ==
    toServer # <<>> =>
        \/ JoinAt(Len(toServer)) /\ set.roster = {}
        \/ Word(Len(toServer)) /\ toServer[Len(toServer)].queue = Current

\* Once let in, the bot is a member of the room until it is told otherwise.
AdmittedFits ==
    Admitted => botRoom = set.room \/ (botRoom = None /\ Evicted)

\* The bot knows who is in the room, or the last snapshot on its way says it.
RosterArrives ==
    \/ set.roster = Truth /\ \A k \in DOMAIN toBot : ~ShownAt(k)
    \/ \E k \in DOMAIN toBot :
          /\ ShownAt(k) /\ toBot[k].roster = Truth
          /\ \A l \in DOMAIN toBot : l > k => ~ShownAt(l)

\* Whoever looks was told the Queue, or will be.
WordArrives ==
    \/ toServer # <<>>
    \/ \E k \in DOMAIN toBot : ShownAt(k) /\ toBot[k].roster # set.roster
    \/ \A u \in Watchers : location[u] = set.room => panel[u][set.room] = Current

\* What is on its way, once the bot is let in.
SocketInv ==
    /\ NumbersFit
    /\ set # None => /\ JoinFits
                     /\ WordFits
                     /\ AdmittedFits
                     /\ Admitted /\ botRoom = set.room => RosterArrives /\ WordArrives

\* A membership belongs to the Set, or is about to be given up.
LeaveComing == \E i \in DOMAIN toServer : toServer[i].kind = "leave" /\ toServer[i].room = botRoom
MembershipInv ==
    /\ \A i \in DOMAIN toServer : toServer[i].kind = "join" => set # None /\ JoinAt(i)
    /\ botRoom # None => \/ set # None /\ Admitted
                         \/ LeaveComing
                         \/ closing = botRoom
------------------------
(* What the effects of an event make of the player. *)

\* The fields an event of the Queue leaves alone.
SameSet(s, t) ==
    /\ t.id = s.id /\ t.room = s.room /\ t.joined = s.joined /\ t.ended = s.ended
    /\ t.roster = s.roster /\ t.silenced = s.silenced

LEMMA SetFields ==
    ASSUME NEW s \in Sets
    PROVE  /\ s # None /\ s.id \in Nat /\ s.room \in Rooms /\ s.joined \in BOOLEAN /\ s.ended \in BOOLEAN
           /\ s.roster \subseteq Listeners \cup {Bot} /\ s.requested \in BOOLEAN /\ s.silenced \in BOOLEAN
           /\ s.track \in Nat \cup {None} /\ s.finished \in BOOLEAN /\ s.sounding \in BOOLEAN
  BY NoneAssumption DEF Sets

LEMMA SyncedFields ==
    ASSUME NEW s \in Sets, NEW t, t = Synced(s)
    PROVE  /\ t \in Sets /\ SameSet(s, t)
           /\ t.requested = s.requested /\ t.track = s.track /\ t.finished = s.finished
           /\ t.sounding <=> s.requested /\ ~s.silenced /\ s.track # None /\ ~s.finished
<1> DEFINE heard == s.requested /\ ~s.silenced /\ s.track # None /\ ~s.finished
<1>1. heard \in BOOLEAN /\ t = [s EXCEPT !.sounding = heard]
  BY DEF Synced
<1>2. heard <=> s.requested /\ ~s.silenced /\ s.track # None /\ ~s.finished
  OBVIOUS
<1> HIDE DEF heard
<1>3. t \in Sets
  BY <1>1 DEF Sets
<1>4. /\ SameSet(s, t) /\ t.requested = s.requested /\ t.track = s.track /\ t.finished = s.finished
      /\ t.sounding = heard
  BY <1>1 DEF Sets, SameSet
<1>5. QED
  BY <1>2, <1>3, <1>4

Loaded(s, fx, st) ==
    IF "load" \in fx THEN [s EXCEPT !.track = Head(st.entries), !.finished = FALSE] ELSE s

LEMMA LoadedFields ==
    ASSUME NEW s \in Sets, NEW fx, NEW st, "load" \in fx => Head(st.entries) \in Nat
    PROVE  /\ Loaded(s, fx, st) \in Sets /\ SameSet(s, Loaded(s, fx, st))
           /\ Loaded(s, fx, st).requested = s.requested /\ Loaded(s, fx, st).sounding = s.sounding
           /\ "load" \in fx => Loaded(s, fx, st).track = Head(st.entries) /\ ~Loaded(s, fx, st).finished
           /\ "load" \notin fx => Loaded(s, fx, st).track = s.track /\ Loaded(s, fx, st).finished = s.finished
BY DEF Sets, SameSet, Loaded

LEMMA AskedFields ==
    ASSUME NEW s \in Sets, NEW b \in BOOLEAN, NEW t, t = [s EXCEPT !.requested = b]
    PROVE  /\ t \in Sets /\ SameSet(s, t) /\ t.requested = b
           /\ t.track = s.track /\ t.finished = s.finished
  BY DEF Sets, SameSet

\* Whatever an event asks of the player, the player ends up following the Queue.
LEMMA DrivenFits ==
    ASSUME NEW s \in Sets, NEW st \in PlaybackState, PlayerFits(s, st), NEW r, r.state \in PlaybackState,
           \/ Keeps(st, r)
           \/ Starts(st, r)
           \/ Empties(st, r) /\ ("stop" \in r.effects \/ ~st.playing \/ s.finished),
           NEW d, d = Driven(s, r.effects, r.state)
    PROVE  /\ d \in Sets /\ SameSet(s, d) /\ PlayerFits(d, r.state)
           /\ ~Starts(st, r) => d.finished = s.finished
<1> DEFINE fx == r.effects
           l == Loaded(s, fx, r.state)
           p == IF "play" \in fx THEN [l EXCEPT !.requested = TRUE]
                ELSE IF "stop" \in fx THEN [l EXCEPT !.requested = FALSE] ELSE l
<1>1. d = IF "play" \in fx \/ "stop" \in fx THEN Synced(p) ELSE l
  BY DEF Driven, Loaded
<1>2. "load" \in fx <=> Starts(st, r)
  BY DEF Keeps, Starts, Empties
<1>3. /\ l \in Sets /\ SameSet(s, l) /\ l.requested = s.requested /\ l.sounding = s.sounding
      /\ "load" \in fx => l.track = Head(r.state.entries) /\ ~l.finished
      /\ "load" \notin fx => l.track = s.track /\ l.finished = s.finished
  <2>1. "load" \in fx => Head(r.state.entries) \in Nat
    BY <1>2, StateFields, HeadAndTail DEF Starts
  <2>2. QED
    BY <2>1, LoadedFields
<1> HIDE DEF l
<1>4. /\ p \in Sets /\ SameSet(l, p) /\ p.track = l.track /\ p.finished = l.finished
      /\ "play" \in fx => p.requested
      /\ "play" \notin fx /\ "stop" \in fx => ~p.requested
  <2>1. CASE "play" \in fx
    BY <1>3, <2>1, AskedFields
  <2>2. CASE "play" \notin fx /\ "stop" \in fx
    <3>1. p = [l EXCEPT !.requested = FALSE]
      BY <2>2
    <3>2. QED
      BY <1>3, <2>2, <3>1, AskedFields
  <2>3. CASE "play" \notin fx /\ "stop" \notin fx
    BY <1>3, <2>3 DEF SameSet
  <2>4. QED
    BY <2>1, <2>2, <2>3
<1> HIDE DEF p
<1>5. /\ d \in Sets /\ SameSet(s, d) /\ d.track = l.track /\ d.finished = l.finished
      /\ "play" \in fx \/ "stop" \in fx =>
            /\ d.requested = p.requested
            /\ d.sounding <=> p.requested /\ ~s.silenced /\ l.track # None /\ ~l.finished
      /\ "play" \notin fx /\ "stop" \notin fx => d.requested = s.requested /\ d.sounding = s.sounding
  BY <1>1, <1>3, <1>4, SyncedFields DEF SameSet
<1>6. st.playing \in BOOLEAN /\ r.state.playing \in BOOLEAN /\ d.silenced = s.silenced
  BY <1>5, StateFields DEF SameSet
<1>7. \A e \in Nat : e # None
  BY NoneAssumption
<1>8. st.entries # <<>> => Head(st.entries) \in Nat
  BY StateFields, HeadAndTail
<1>9. r.state.entries # <<>> => Head(r.state.entries) \in Nat
  BY StateFields, HeadAndTail
<1>10. PlayerFits(d, r.state)
  BY <1>2, <1>3, <1>4, <1>5, <1>6, <1>7, <1>8, <1>9 DEF Keeps, PlayerFits, Starts, Empties
<1>11. QED
  BY <1>2, <1>3, <1>5, <1>10
------------------------
(* What an event of the Queue keeps of the invariant. *)

\* The trichotomy every event of the Queue is one of.
Fits(st, r, finished) ==
    \/ Keeps(st, r)
    \/ Starts(st, r)
    \/ Empties(st, r) /\ ("stop" \in r.effects \/ ~st.playing \/ finished)

LEMMA TaskFields ==
    ASSUME TypeOK, chain # <<>>
    PROVE  /\ Task \in Tasks /\ Tail(chain) \in Seq(Tasks)
           /\ \A i \in DOMAIN Tail(chain) : i + 1 \in DOMAIN chain /\ Tail(chain)[i] = chain[i + 1]
           /\ Task = chain[1] /\ 1 \in DOMAIN chain
  BY HeadAndTail DEF TypeOK, Task

LEMMA TaskKinds ==
    ASSUME NEW t \in Tasks
    PROVE  /\ t.kind = "add" => t.room \in Rooms
           /\ t.kind = "ended" => t.set \in Nat /\ t.entry \in Nat
           /\ t.kind = "grace" => t.set \in Nat /\ t.wait \in Nat
  BY DEF Tasks, MemberTasks

LEMMA BotInvFacts ==
    ASSUME BotInv
    PROVE  /\ playback \in PlaybackState /\ Distinct(playback.entries)
           /\ \A x : In(x, playback.entries) => x \in Nat /\ x <= minted.entries
           /\ minted.sets \in Nat /\ minted.entries \in Nat /\ waits \in Nat
           /\ set # None => set \in Sets
           /\ playback.entries \in Seq(Nat)
BY StateFields DEF BotInv, TypeOK, EntriesFit, In

\* An event of the Queue, with its effects, keeps the invariant.
LEMMA AdvanceKeeps ==
    ASSUME BotInv, set # None, NEW s \in Sets, s.id = set.id, s.room = set.room, s.finished = set.finished,
           PlayerFits(s, playback), NEW first \in Seq(Requests),
           NEW r, r.state \in PlaybackState, Distinct(r.state.entries), Fits(playback, r, set.finished),
           minted' \in [sets: Nat, entries: Nat], minted.sets <= minted'.sets, minted.entries <= minted'.entries,
           \A x : In(x, r.state.entries) =>
                    In(x, playback.entries) \/ (x = minted.entries + 1 /\ x <= minted'.entries),
           Advance(s, r, first)
    PROVE  /\ playback' = r.state /\ set' \in Sets /\ SameSet(s, set') /\ PlayerFits(set', playback')
           /\ EntriesFit' /\ FetchFollowsTheQueue' /\ TimerFits'
           /\ audio' \in Fetches \cup {None} /\ timer' \in Timers \cup {None} /\ waits' \in Nat
           /\ toServer' \in Seq(Requests)
           /\ \A t \in Tasks : TaskFits(t) => TaskFits(t)'
<1>1. /\ playback' = r.state /\ set' = Driven(s, r.effects, r.state)
      /\ audio' = IF "load" \in r.effects THEN [entry |-> Head(r.state.entries), reported |-> FALSE]
                  ELSE IF "unload" \in r.effects THEN None ELSE audio
      /\ waits' = IF "startGracePeriod" \in r.effects THEN waits + 1 ELSE waits
      /\ timer' = IF "startGracePeriod" \in r.effects
                  THEN [set |-> s.id, wait |-> waits + 1, running |-> TRUE]
                  ELSE IF "cancelGracePeriod" \in r.effects THEN None ELSE timer
  BY DEF Advance
<1>2. BotInv /\ TypeOK /\ SetFits /\ TimerFits /\ FetchFollowsTheQueue
  BY DEF BotInv
<1>3. /\ set' \in Sets /\ SameSet(s, set') /\ PlayerFits(set', playback')
      /\ ~Starts(playback, r) => set'.finished = set.finished
  BY <1>1, <1>2, BotInvFacts, DrivenFits DEF Fits
<1>4. r.state.entries \in Seq(Nat) /\ minted.entries \in Nat /\ minted'.entries \in Nat
  BY BotInvFacts, StateFields
<1>5. EntriesFit'
  <2>1. ASSUME NEW i \in DOMAIN r.state.entries PROVE r.state.entries[i] <= minted'.entries
    <3>1. r.state.entries[i] \in Nat /\ In(r.state.entries[i], r.state.entries)
      BY <1>4 DEF In
    <3>2. QED
      BY <1>4, <3>1, BotInvFacts
  <2>2. QED
    BY <1>1, <2>1 DEF EntriesFit
<1>6. r.state.entries # <<>> => Head(r.state.entries) \in Nat /\ In(Head(r.state.entries), r.state.entries)
  BY <1>4, HeadAndTail DEF In
<1>7. FetchFollowsTheQueue' /\ audio' \in Fetches \cup {None}
  <2>1. set' # None
    BY <1>3, NoneAssumption
  <2>2. [entry |-> Head(r.state.entries), reported |-> FALSE] # None
        \/ r.state.entries = <<>>
    <3>1. ASSUME NEW e \in Nat PROVE [entry |-> e, reported |-> FALSE] # None
      <4>1. [entry |-> e, reported |-> FALSE] \in Fetches
        BY DEF Fetches
      <4>2. QED
        BY <4>1, NoneAssumption
    <3>2. QED
      BY <1>6, <3>1
  <2>3. CASE Keeps(playback, r)
    <3>1. audio' = audio
      BY <1>1, <2>3 DEF Keeps
    <3>2. QED
      BY <1>1, <1>2, <2>1, <2>3, <3>1 DEF Keeps, FetchFollowsTheQueue, TypeOK
  <2>4. CASE Starts(playback, r)
    <3>1. audio' = [entry |-> Head(r.state.entries), reported |-> FALSE] /\ r.state.entries # <<>>
      BY <1>1, <2>4 DEF Starts
    <3>2. audio' \in Fetches /\ audio'.entry = Head(r.state.entries)
      BY <1>6, <3>1 DEF Fetches
    <3>3. QED
      BY <1>1, <2>1, <2>2, <3>1, <3>2 DEF FetchFollowsTheQueue
  <2>5. CASE Empties(playback, r)
    <3>1. audio' = None /\ r.state.entries = <<>>
      BY <1>1, <2>5 DEF Empties
    <3>2. QED
      BY <1>1, <3>1 DEF FetchFollowsTheQueue
  <2>6. QED
    BY <2>3, <2>4, <2>5 DEF Fits
<1>8. waits \in Nat /\ s.id \in Nat /\ s.room \in Rooms
  BY BotInvFacts, SetFields
<1>9. [set |-> s.id, wait |-> waits + 1, running |-> TRUE] \in Timers
  BY <1>8 DEF Timers
<1>10. timer' \in Timers \cup {None} /\ waits' \in Nat /\ TimerFits'
  BY <1>1, <1>8, <1>9, <1>2 DEF TimerFits, TypeOK
<1>11. toServer' \in Seq(Requests)
  <2>1. [kind |-> "publish", room |-> s.room,
         queue |-> [entries |-> r.state.entries, playing |-> r.state.playing]] \in Requests
    BY <1>4, <1>8, StateFields DEF Requests, Queues
  <2>2. PublishedQueue(s.room, r.state) \in Requests
    BY <2>1 DEF PublishedQueue
  <2>3. toServer' = toServer \o first
                \o (IF "publish" \in r.effects THEN <<PublishedQueue(s.room, r.state)>> ELSE <<>>)
    BY DEF Advance
  <2>4. toServer \in Seq(Requests)
    BY <1>2 DEF TypeOK
  <2> HIDE DEF Advance
  <2>5. QED
    BY <2>2, <2>3, <2>4
<1>12. ASSUME NEW t \in Tasks, TaskFits(t) PROVE TaskFits(t)'
  <2>1. ASSUME t.kind = "ended"
        PROVE  /\ t.set <= minted'.sets /\ t.entry <= minted'.entries
               /\ SetIs(t.set)' /\ In(t.entry, playback'.entries) =>
                      set'.finished /\ t.entry = Head(playback'.entries)
    <3>1. /\ t.set \in Nat /\ t.entry \in Nat /\ t.set <= minted.sets /\ t.entry <= minted.entries
          /\ SetIs(t.set) /\ In(t.entry, playback.entries) =>
                set.finished /\ t.entry = Head(playback.entries)
      BY <1>12, <2>1, TaskKinds DEF TaskFits
    <3>2. minted.sets \in Nat /\ minted'.sets \in Nat /\ minted.entries \in Nat /\ minted'.entries \in Nat
      BY BotInvFacts
    <3>3. ASSUME SetIs(t.set)', In(t.entry, playback'.entries)
          PROVE  set'.finished /\ t.entry = Head(playback'.entries)
      <4>1. In(t.entry, playback.entries)
        BY <1>1, <3>1, <3>2, <3>3
      <4>2. SetIs(t.set)
        BY <1>3, <3>3 DEF SetIs, SameSet
      <4>3. set.finished /\ t.entry = Head(playback.entries)
        BY <3>1, <4>1, <4>2
      <4>4. playback.entries # <<>> /\ r.state.entries # <<>>
        BY <1>1, <3>3, <4>1 DEF In
      <4>5. Keeps(playback, r)
        BY <1>1, <3>3, <4>3, <4>4 DEF Fits, Starts, Empties
      <4>6. ~Starts(playback, r)
        BY <1>1, <3>3, <4>3, <4>4 DEF Starts
      <4>7. QED
        BY <1>1, <1>3, <4>3, <4>4, <4>5, <4>6 DEF Keeps
    <3>4. QED
      BY <3>1, <3>2, <3>3
  <2>2. ASSUME t.kind = "grace"
        PROVE  t.wait <= waits' /\ (t.wait = waits' /\ timer' # None => ~timer'.running)
    BY <1>12, <2>2, TaskKinds, <1>1, <1>8 DEF TaskFits
  <2>3. QED
    BY <2>1, <2>2 DEF TaskFits
<1>13. QED
  BY <1>1, <1>3, <1>5, <1>7, <1>10, <1>11, <1>12
------------------------
(* The steps of the bot. *)

\* What waits in the chain stays true where entries, Sets and waits do.
LEMMA SameTasks ==
    ASSUME TypeOK, TasksFit, \A t \in Tasks : TaskFits(t) => TaskFits(t)'
    PROVE  /\ chain' = chain => TasksFit'
           /\ chain # <<>> /\ chain' = Tail(chain) => TasksFit'
           /\ \A t \in Tasks : chain' = Append(chain, t) /\ TaskFits(t)' => TasksFit'
<1>1. chain \in Seq(Tasks)
  BY DEF TypeOK
<1>2. \A i \in DOMAIN chain : chain[i] \in Tasks /\ TaskFits(chain[i])
  BY <1>1 DEF TasksFit
<1>3. ASSUME chain' = chain PROVE TasksFit'
  BY <1>2, <1>3 DEF TasksFit
<1>4. ASSUME chain # <<>>, chain' = Tail(chain) PROVE TasksFit'
  BY <1>2, <1>4, TaskFields DEF TasksFit
<1>5. ASSUME NEW t \in Tasks, chain' = Append(chain, t), TaskFits(t)' PROVE TasksFit'
  BY <1>1, Appended, <1>2, <1>5 DEF TasksFit
<1>6. QED
  BY <1>3, <1>4, <1>5

\* An await that begins or ends changes nothing the Queue, the player or the clock know.
LEMMA QueueSame ==
    ASSUME BotInv, set' = set, playback' = playback, audio' = audio, timer' = timer, waits' = waits,
           minted' = minted,
           step' = step \/ (step \notin {"joining", "refused"} /\ step' \notin {"joining", "refused"})
    PROVE  /\ SetFits' /\ EntriesFit' /\ TimerFits' /\ FetchFollowsTheQueue' /\ GraceFollowsTheRoom'
           /\ \A t \in Tasks : TaskFits(t) => TaskFits(t)'
BY DEF BotInv, SetFits, PlayerFits, EntriesFit, Distinct, TimerFits, FetchFollowsTheQueue, GraceFollowsTheRoom,
   TaskFits, SetIs, In

LEMMA EndSetKeeps ==
    ASSUME BotInv, EndSet
    PROVE  /\ set' = None /\ playback' = EmptyPlayback /\ audio' = None /\ minted' = minted /\ waits' = waits
           /\ playback' \in PlaybackState /\ timer' \in Timers \cup {None}
           /\ closing' = None \/ closing' = set.room
           /\ closing' \in Rooms \cup {None} /\ toServer' \in Seq(Requests)
           /\ SetFits' /\ EntriesFit' /\ TimerFits' /\ FetchFollowsTheQueue' /\ GraceFollowsTheRoom'
           /\ \A t \in Tasks : TaskFits(t) => TaskFits(t)'
<1>1. TypeOK /\ TimerFits /\ set \in Sets
  BY BotInvFacts DEF BotInv, EndSet
<1>2. /\ set' = None /\ playback' = EmptyPlayback /\ audio' = None /\ minted' = minted /\ waits' = waits
      /\ timer' = timer \/ timer' = None
      /\ closing' = None \/ closing' = set.room
  BY DEF EndSet, Cleared
<1>3. /\ EmptyPlayback.entries = <<>> /\ EmptyPlayback.playing = FALSE /\ EmptyPlayback.awaitingReturn = FALSE
      /\ EmptyPlayback.log = 0
  BY DEF EmptyPlayback
<1>4. EmptyPlayback \in PlaybackState
  BY PlaybackAssumption DEF EmptyPlayback, PlaybackState
<1>5. timer' \in Timers \cup {None} /\ closing' \in Rooms \cup {None}
  BY <1>1, <1>2, SetFields DEF TypeOK
<1>6. toServer' \in Seq(Requests)
  <2>1. set.room \in Rooms /\ [entries |-> <<>>, playing |-> FALSE] \in Queues
    BY <1>1, SetFields DEF Queues
  <2>2. [kind |-> "publish", room |-> set.room, queue |-> [entries |-> <<>>, playing |-> FALSE]] \in Requests
    BY <2>1 DEF Requests
  <2>3. PublishedQueue(set.room, Cleared(playback).state) \in Requests
    BY <1>3, <2>2 DEF PublishedQueue, Cleared
  <2>4. toServer \in Seq(Requests)
    BY <1>1 DEF TypeOK
  <2>5. toServer' = toServer \o (IF "publish" \in Cleared(playback).effects
                                 THEN <<PublishedQueue(set.room, Cleared(playback).state)>> ELSE <<>>)
    BY DEF EndSet
  <2>6. QED
    BY <2>3, <2>4, <2>5
<1>7. SetFits' /\ FetchFollowsTheQueue' /\ GraceFollowsTheRoom'
  BY <1>2, <1>3 DEF SetFits, FetchFollowsTheQueue, GraceFollowsTheRoom
<1>8. EntriesFit' /\ TimerFits'
  BY <1>1, <1>2, <1>3 DEF EntriesFit, Distinct, TimerFits
<1>9. ASSUME NEW t \in Tasks, TaskFits(t) PROVE TaskFits(t)'
  BY <1>2, <1>9 DEF TaskFits, SetIs
<1>10. QED
  BY <1>2, <1>4, <1>5, <1>6, <1>7, <1>8, <1>9

LEMMA BotUnchanged ==
    ASSUME BotInv, UNCHANGED botVars, toServer' \in Seq(Requests), toBot' \in Seq(Messages),
           botRoom' \in Rooms \cup {None}, muted' \in BOOLEAN,
           location' \in [Listeners -> Rooms \cup {None}], panel' \in [Watchers -> [Rooms -> Queues]]
    PROVE  BotInv'
BY QueueSame, SameTasks DEF BotInv, TypeOK, botVars, ChainFits, Task

LEMMA AddBeginsKeeps == ASSUME BotInv, AddBegins \/ AddUnresolved PROVE BotInv'
BY TaskFields, QueueSame, SameTasks DEF BotInv, AddBegins, AddUnresolved, Served, TypeOK, Steps, Done, serverVars,
   ChainFits, Task

LEMMA AddResolvedKeeps == ASSUME BotInv, AddResolved PROVE BotInv'
BY EndSetKeeps, SameTasks, QueueSame DEF BotInv, AddResolved, Served, TypeOK, Steps, serverVars, EndSet, ChainFits,
   Task, SetIn

LEMMA EndingKeeps == ASSUME BotInv, JoinTimesOut \/ Recover \/ ApplyEnding PROVE BotInv'
BY EndSetKeeps, SameTasks DEF BotInv, JoinTimesOut, Recover, ApplyEnding, ChainFits, TypeOK, Steps, serverVars, Task

LEMMA BeginKeeps == ASSUME BotInv, Begin PROVE BotInv'
<1>1. TypeOK /\ ChainFits /\ TasksFit /\ SetFits /\ EntriesFit /\ TimerFits /\ FetchFollowsTheQueue
  BY DEF BotInv
<1>2. /\ step = "configuring" /\ step' = "joining" /\ set = None /\ chain # <<>> /\ Task.kind = "add"
      /\ set' = NewSet(minted.sets + 1, Task.room) /\ minted' = [minted EXCEPT !.sets = @ + 1]
      /\ toServer' = Append(toServer, [kind |-> "join", set |-> minted.sets + 1, room |-> Task.room])
      /\ UNCHANGED <<chain, closing, playback, audio, timer, waits, serverVars, toBot, spent>>
  BY <1>1 DEF Begin, ChainFits
<1>3. Task.room \in Rooms /\ minted.sets \in Nat /\ minted.entries \in Nat
  BY <1>1, <1>2, TaskFields, TaskKinds DEF TypeOK
<1>4. minted'.sets = minted.sets + 1 /\ minted'.entries = minted.entries /\ minted' \in [sets: Nat, entries: Nat]
  BY <1>1, <1>2 DEF TypeOK
<1>5. /\ set' \in Sets /\ set'.id = minted.sets + 1 /\ ~set'.joined /\ ~set'.ended /\ set'.roster = {}
      /\ ~set'.requested /\ ~set'.sounding /\ set'.room = Task.room
  BY <1>2, <1>3 DEF NewSet, Sets
<1>6. toServer' \in Seq(Requests)
  BY <1>3, <1>1, <1>2 DEF Requests, TypeOK
<1>7. TypeOK'
  BY <1>1, <1>2, <1>4, <1>5, <1>6 DEF TypeOK, Steps, serverVars
<1>8. ChainFits'
  BY <1>1, <1>2, <1>5, SetFields DEF ChainFits, Task
<1>9. playback.entries = <<>> /\ ~playback.playing /\ ~playback.awaitingReturn
  BY <1>1, <1>2 DEF SetFits
<1>10. SetFits'
  BY <1>5, SetFields, <1>9, <1>2, <1>3, <1>4 DEF PlayerFits, SetFits
<1>11. EntriesFit' /\ TimerFits' /\ FetchFollowsTheQueue'
  BY <1>1, <1>2, <1>4, <1>9 DEF EntriesFit, TimerFits, FetchFollowsTheQueue, Distinct
<1>12. GraceFollowsTheRoom'
  BY <1>2, <1>5, <1>9 DEF GraceFollowsTheRoom
<1>13. ASSUME NEW t \in Tasks, TaskFits(t) PROVE TaskFits(t)'
  BY <1>13, TaskKinds, <1>2, <1>9, <1>3, <1>4 DEF TaskFits, In
<1>14. TasksFit'
  BY <1>1, <1>2, <1>13, SameTasks
<1>15. QED
  BY <1>7, <1>8, <1>10, <1>11, <1>12, <1>14 DEF BotInv

\* The clock is untouched, and so is what the Grace period hangs on.
LEMMA SameRoster ==
    ASSUME BotInv, set # None, set' # None, set'.id = set.id, set'.roster = set.roster,
           playback'.awaitingReturn = playback.awaitingReturn, timer' = timer, waits' = waits
    PROVE  GraceFollowsTheRoom'
BY DEF BotInv, GraceFollowsTheRoom

LEMMA AddEndsKeeps == ASSUME BotInv, AddEnds PROVE BotInv'
<1>1. TypeOK /\ ChainFits /\ TasksFit /\ SetFits
  BY DEF BotInv
<1> DEFINE r == Added(playback, minted.entries + 1)
<1>2. /\ step = "adding" /\ Advance(set, r, <<>>) /\ minted' = [minted EXCEPT !.entries = @ + 1]
      /\ chain' = Tail(chain) /\ step' = "ready" /\ UNCHANGED <<closing, serverVars, toBot, spent>>
      /\ chain # <<>> /\ set # None /\ closing = None
  BY <1>1 DEF AddEnds, ChainFits, Done
<1>3. set \in Sets /\ ~set.ended /\ set.joined /\ set.id <= minted.sets /\ PlayerFits(set, playback)
  BY <1>1, <1>2, BotInvFacts DEF SetFits
<1>a. /\ minted \in [sets: Nat, entries: Nat]
      /\ playback \in PlaybackState /\ Distinct(playback.entries)
      /\ \A x : In(x, playback.entries) => x \in Nat /\ x <= minted.entries
  BY <1>1, BotInvFacts DEF TypeOK
<1>4. /\ minted'.entries = minted.entries + 1 /\ minted'.sets = minted.sets /\ minted' \in [sets: Nat, entries: Nat]
      /\ minted.entries \in Nat /\ minted.sets \in Nat
  BY <1>2, <1>a
<1>5. ~In(minted.entries + 1, playback.entries)
  BY <1>4, <1>a
<1>6. /\ Plain(playback, r) /\ (Keeps(playback, r) \/ Starts(playback, r))
      /\ \A x : In(x, r.state.entries) => In(x, playback.entries) \/ x = minted.entries + 1
  BY <1>4, <1>5, <1>a, AddedResult
<1>7. /\ playback' = r.state /\ waits' = waits /\ timer' = timer
  BY <1>2, <1>6 DEF Advance, Plain
<1> HIDE DEF r
<1>8. /\ set' \in Sets /\ SameSet(set, set') /\ PlayerFits(set', playback')
      /\ EntriesFit' /\ FetchFollowsTheQueue' /\ TimerFits'
      /\ audio' \in Fetches \cup {None} /\ toServer' \in Seq(Requests)
      /\ \A t \in Tasks : TaskFits(t) => TaskFits(t)'
  <2>1. r.state \in PlaybackState /\ Distinct(r.state.entries) /\ Fits(playback, r, set.finished)
    BY <1>6 DEF Plain, Fits
  <2>2. minted.sets <= minted'.sets /\ minted.entries <= minted'.entries /\ <<>> \in Seq(Requests)
    BY <1>4
  <2>3. \A x : In(x, r.state.entries) =>
                    In(x, playback.entries) \/ (x = minted.entries + 1 /\ x <= minted'.entries)
    BY <1>4, <1>6
  <2>4. QED
    BY <1>2, <1>3, <1>4, <2>1, <2>2, <2>3, AdvanceKeeps
<1>9. TypeOK'
  BY <1>1, <1>2, <1>4, <1>6, <1>7, <1>8, TaskFields DEF TypeOK, Steps, Plain, serverVars
<1>10. set' # None
  BY <1>8, SetFields
<1>11. ChainFits'
  BY <1>2 DEF ChainFits
<1>12. SetFits'
  BY <1>2, <1>3, <1>4, <1>8, <1>10 DEF SetFits, SameSet
<1>13. GraceFollowsTheRoom'
  BY <1>2, <1>6, <1>7, <1>8, <1>10, SameRoster DEF SameSet, Plain
<1>14. TasksFit'
  BY <1>1, <1>2, <1>8, SameTasks
<1>15. QED
  BY <1>8, <1>9, <1>11, <1>12, <1>13, <1>14 DEF BotInv

\* A request or a report is one of the three, and takes nothing it does not name.
LEMMA ResultFits ==
    ASSUME BotInv, chain # <<>>, Task.kind \in {"play", "stop", "skip", "remove", "ended", "failed"}, About(Task)
    PROVE  /\ set # None /\ Plain(playback, Result) /\ Fits(playback, Result, set.finished)
           /\ \A x : In(x, Result.state.entries) => In(x, playback.entries)
           /\ \A x : In(x, playback.entries) =>
                        \/ In(x, Result.state.entries)
                        \/ Task.kind \in {"skip", "remove", "ended", "failed"} /\ Task.entry = x
<1>1. TypeOK /\ TasksFit /\ TaskFits(Task)
  BY TaskFields DEF BotInv, TasksFit
<1>2. playback \in PlaybackState /\ Distinct(playback.entries) /\ playback.entries \in Seq(Nat)
  BY BotInvFacts
<1>3. set # None /\ (Task.kind = "ended" => SetIs(Task.set))
  BY DEF About, SetIs, SetIn
<1>4. CASE Task.kind = "play"
  BY <1>4, <1>2, <1>3, ResumedResult DEF Result, Fits
<1>5. CASE Task.kind = "stop"
  BY <1>5, <1>2, <1>3, PausedResult DEF Result, Fits
<1>6. CASE Task.kind = "remove"
  <2>1. Result = Removed(playback, Task.entry)
    BY <1>6 DEF Result
  <2>2. QED
    BY <1>2, <1>3, <1>6, <2>1, RemovedResult DEF Fits, OnlyGone
<1>7. CASE Task.kind \in {"skip", "failed"}
  <2>1. Result = AdvancePast(playback, Task.entry, playback.playing, WithLine(playback.log))
    BY <1>7 DEF Result, Skipped, Failed
  <2>2. playback.playing \in BOOLEAN /\ WithLine(playback.log) \in 0..LogLimit
    BY <1>2, StateFields, LineFits
  <2>3. /\ Plain(playback, Result) /\ OnlyGone(playback, Result, Task.entry)
        /\ \/ Keeps(playback, Result) \/ Starts(playback, Result)
           \/ Empties(playback, Result) /\ ("stop" \in Result.effects <=> playback.playing)
    BY <1>2, <2>1, <2>2, AdvancePastResult
  <2>4. QED
    BY <1>3, <1>7, <2>2, <2>3 DEF Fits, OnlyGone
<1>8. CASE Task.kind = "ended"
  <2>1. Result = AdvancePast(playback, Task.entry, FALSE, playback.log)
    BY <1>8 DEF Result, Ended
  <2>2. playback.log \in 0..LogLimit
    BY <1>2, StateFields
  <2>3. playback.entries # <<>> /\ Head(playback.entries) = Task.entry => set.finished
    <3>1. ASSUME playback.entries # <<>>, Head(playback.entries) = Task.entry PROVE In(Task.entry, playback.entries)
      BY <1>2, <3>1, HeadAndTail DEF In
    <3>2. QED
      BY <1>1, <1>3, <1>8, <3>1 DEF TaskFits
  <2>4. /\ Plain(playback, Result) /\ OnlyGone(playback, Result, Task.entry)
        /\ \/ Keeps(playback, Result) \/ Starts(playback, Result)
           \/ /\ Empties(playback, Result)
              /\ playback.entries # <<>> /\ Head(playback.entries) = Task.entry
    BY <1>2, <2>1, <2>2, AdvancePastResult
  <2>5. QED
    BY <1>3, <1>8, <2>3, <2>4 DEF Fits, OnlyGone
<1>9. QED
  BY <1>4, <1>5, <1>6, <1>7, <1>8

LEMMA ApplyAtOnceKeeps == ASSUME BotInv, ApplyAtOnce PROVE BotInv'
<1>1. TypeOK /\ ChainFits /\ TasksFit /\ SetFits
  BY DEF BotInv
<1>2. /\ chain # <<>> /\ step = "ready" /\ chain' = Tail(chain) /\ step' = "ready"
      /\ UNCHANGED <<closing, minted, serverVars, toBot, spent>> /\ closing = None
      /\ Task.kind \in {"play", "stop", "skip", "remove", "ended", "failed"}
  BY <1>1 DEF ApplyAtOnce, ChainFits, Done
<1>3. ChainFits'
  BY <1>2 DEF ChainFits
<1>4. CASE ~About(Task)
  BY <1>4, <1>2, QueueSame, <1>1, TaskFields, SameTasks, <1>3 DEF ApplyAtOnce, TypeOK, Steps, serverVars, BotInv
<1>5. CASE About(Task)
  <2>1. Advance(set, Result, <<>>)
    BY <1>5 DEF ApplyAtOnce
  <2>2. /\ set # None /\ Plain(playback, Result) /\ Fits(playback, Result, set.finished)
        /\ \A x : In(x, Result.state.entries) => In(x, playback.entries)
    BY <1>2, <1>5, ResultFits
  <2>3. set \in Sets /\ ~set.ended /\ set.joined /\ set.id <= minted.sets /\ PlayerFits(set, playback)
    BY <1>1, <1>2, <2>2, BotInvFacts DEF SetFits
  <2>4. /\ playback' = Result.state /\ waits' = waits /\ timer' = timer
    BY <2>1, <2>2 DEF Advance, Plain
  <2>5. /\ set' \in Sets /\ SameSet(set, set') /\ PlayerFits(set', playback')
        /\ EntriesFit' /\ FetchFollowsTheQueue' /\ TimerFits'
        /\ audio' \in Fetches \cup {None} /\ toServer' \in Seq(Requests)
        /\ \A t \in Tasks : TaskFits(t) => TaskFits(t)'
    <3>1. /\ minted' \in [sets: Nat, entries: Nat] /\ minted.sets <= minted'.sets
          /\ minted.entries <= minted'.entries /\ <<>> \in Seq(Requests)
      BY <1>1, <1>2 DEF TypeOK
    <3>2. Result.state \in PlaybackState /\ Distinct(Result.state.entries)
      BY <2>2 DEF Plain
    <3>3. \A x : In(x, Result.state.entries) =>
                    In(x, playback.entries) \/ (x = minted.entries + 1 /\ x <= minted'.entries)
      BY <2>2
    <3> HIDE DEF Result
    <3>4. QED
      BY <2>1, <2>2, <2>3, <3>1, <3>2, <3>3, AdvanceKeeps
  <2>6. TypeOK'
    BY <1>1, <1>2, <2>2, <2>4, <2>5, TaskFields DEF TypeOK, Steps, Plain, serverVars
  <2>7. set' # None
    BY <2>5, SetFields
  <2>8. SetFits'
    BY <1>2, <2>3, <2>5, <2>7 DEF SetFits, SameSet
  <2>9. GraceFollowsTheRoom'
    BY <2>2, <2>4, <2>5, <2>7, SameRoster DEF SameSet, Plain
  <2>10. TasksFit'
    BY <1>1, <1>2, <2>5, SameTasks
  <2>11. QED
    BY <1>3, <2>5, <2>6, <2>8, <2>9, <2>10 DEF BotInv
<1>6. QED
  BY <1>4, <1>5

LEMMA ApplyNothingKeeps == ASSUME BotInv, ApplyNothing PROVE BotInv'
<1>1. TypeOK /\ ChainFits /\ TasksFit
  BY DEF BotInv
<1>2. /\ chain # <<>> /\ step = "ready" /\ chain' = Tail(chain) /\ step' = "ready" /\ closing = None
      /\ UNCHANGED <<serverVars, toBot, spent>>
      /\ ForgetQueue \/ UNCHANGED <<set, closing, playback, audio, timer, waits, minted, toServer>>
  BY <1>1 DEF ApplyNothing, ChainFits, Done
<1>3. CASE UNCHANGED <<set, closing, playback, audio, timer, waits, minted, toServer>>
  BY <1>2, <1>3, QueueSame, <1>1, TaskFields, SameTasks DEF TypeOK, Steps, serverVars, ChainFits, BotInv
<1>4. CASE ForgetQueue
  <2>1. /\ set = None /\ playback' = EmptyPlayback /\ audio' = None
        /\ UNCHANGED <<set, closing, timer, waits, minted, toServer>>
    BY <1>4 DEF ForgetQueue
  <2>2. EmptyPlayback \in PlaybackState
    BY PlaybackAssumption DEF EmptyPlayback, PlaybackState
  <2>3. TypeOK'
    BY <1>1, <1>2, <2>1, <2>2, TaskFields DEF TypeOK, Steps, serverVars
  <2>4. ChainFits'
    BY <1>2, <2>1 DEF ChainFits
  <2>5. SetFits' /\ EntriesFit' /\ FetchFollowsTheQueue' /\ GraceFollowsTheRoom'
    BY <2>1 DEF SetFits, EntriesFit, Distinct, FetchFollowsTheQueue, GraceFollowsTheRoom, EmptyPlayback
  <2>6. TimerFits'
    BY <2>1 DEF TimerFits, BotInv
  <2>7. ASSUME NEW t \in Tasks, TaskFits(t) PROVE TaskFits(t)'
    BY <2>1, <2>7 DEF TaskFits, SetIs
  <2>8. TasksFit'
    BY <1>1, <1>2, <2>7, SameTasks
  <2>9. QED
    BY <2>3, <2>4, <2>5, <2>6, <2>8 DEF BotInv
<1>5. QED
  BY <1>2, <1>3, <1>4

LEMMA ClosedKeeps == ASSUME BotInv, Closed PROVE BotInv'
<1>1. TypeOK /\ ChainFits /\ TasksFit
  BY DEF BotInv
<1>2. /\ chain # <<>> /\ set = None /\ step \in {"makingWay", "ending"} /\ closing' = None
      /\ UNCHANGED <<set, playback, audio, timer, waits, minted, serverVars, toBot, spent>>
      /\ \/ step = "makingWay" /\ step' = "configuring" /\ chain' = chain
         \/ step' = "ready" /\ chain' = Tail(chain)
      /\ toServer' = IF closing = None THEN toServer ELSE Append(toServer, [kind |-> "leave", room |-> closing])
  BY <1>1 DEF Closed, ChainFits, Done
<1>3. toServer' \in Seq(Requests)
  BY <1>1, <1>2 DEF TypeOK, Requests
<1>4. TypeOK'
  BY <1>1, <1>2, <1>3, TaskFields DEF TypeOK, Steps, serverVars
<1>5. ChainFits'
  BY <1>1, <1>2 DEF ChainFits, Task
<1>6. /\ SetFits' /\ EntriesFit' /\ TimerFits' /\ FetchFollowsTheQueue' /\ GraceFollowsTheRoom'
      /\ \A t \in Tasks : TaskFits(t) => TaskFits(t)'
  BY <1>2, QueueSame
<1>7. TasksFit'
  BY <1>1, <1>2, <1>6, SameTasks
<1>8. QED
  BY <1>4, <1>5, <1>6, <1>7 DEF BotInv

\* More waits in the chain: what is served stays what it was.
LEMMA LongerChain ==
    ASSUME BotInv, NEW t \in Tasks, chain' = Append(chain, t), step' = step, closing' = closing,
           set' = None <=> set = None
    PROVE  chain' \in Seq(Tasks) /\ ChainFits'
BY Appended DEF BotInv, TypeOK, ChainFits, Task

LEMMA PlayerFinishesKeeps == ASSUME BotInv, PlayerFinishes PROVE BotInv'
<1>1. TypeOK /\ ChainFits /\ TasksFit /\ SetFits /\ FetchFollowsTheQueue /\ EntriesFit /\ TimerFits
  BY DEF BotInv
<1>2. /\ set # None /\ set.sounding /\ set' = [set EXCEPT !.sounding = FALSE, !.finished = TRUE]
      /\ chain' = IF audio = None THEN chain
                ELSE Append(chain, [kind |-> "ended", set |-> set.id, entry |-> audio.entry])
      /\ UNCHANGED <<step, closing, playback, audio, timer, waits, minted,
                   serverVars, toServer, toBot, spent>>
  BY DEF PlayerFinishes
<1>3. set \in Sets
  BY <1>2, BotInvFacts
<1>4. /\ set' \in Sets /\ SameSet(set, set') /\ ~set'.sounding /\ set'.finished
      /\ set'.requested = set.requested /\ set'.track = set.track
  BY <1>2, <1>3 DEF Sets, SameSet
<1>5. set' # None
  BY <1>4, SetFields
<1>6. SetFits'
  BY <1>1, <1>2, <1>4, <1>5 DEF SetFits, PlayerFits, SameSet
<1>7. EntriesFit' /\ TimerFits' /\ FetchFollowsTheQueue'
  BY <1>1, <1>2, <1>5 DEF EntriesFit, Distinct, TimerFits, FetchFollowsTheQueue
<1>8. GraceFollowsTheRoom'
  BY <1>2, <1>4, <1>5, SameRoster DEF SameSet
<1>9. ASSUME NEW t \in Tasks, TaskFits(t) PROVE TaskFits(t)'
  BY <1>2, <1>4, <1>5, <1>9 DEF TaskFits, SetIs, SameSet, In
<1>10. CASE audio = None
  BY <1>2, <1>10, <1>1, <1>4, <1>5, <1>9, SameTasks, <1>6, <1>7, <1>8 DEF TypeOK, ChainFits, Task, serverVars,
     BotInv
<1>11. CASE audio # None
  <2>0. [kind |-> "ended", set |-> set.id, entry |-> audio.entry] \in Tasks
    BY <1>1, <1>3, <1>11, SetFields DEF TypeOK, Fetches, Tasks
  <2>1. PICK t \in Tasks : t = [kind |-> "ended", set |-> set.id, entry |-> audio.entry]
    BY <2>0
  <2>2. chain' = Append(chain, t) /\ t.kind = "ended" /\ t.set = set.id /\ t.entry = audio.entry
    BY <1>2, <1>11, <2>1
  <2>3. playback.entries # <<>> /\ audio.entry = Head(playback.entries)
    BY <1>1, <1>11 DEF FetchFollowsTheQueue
  <2>4. audio.entry <= minted.entries /\ set.id <= minted.sets
    BY <2>3, BotInvFacts, HeadAndTail, <1>1, <1>2 DEF In, SetFits
  <2>5. TaskFits(t)'
    BY <1>2, <1>4, <2>2, <2>3, <2>4 DEF TaskFits
  <2>6. TasksFit'
    BY <1>1, <1>9, <2>1, <2>2, <2>5, SameTasks
  <2>7. chain' \in Seq(Tasks) /\ ChainFits'
    BY <1>2, <1>5, <2>1, <2>2, LongerChain
  <2>8. TypeOK'
    BY <1>1, <1>2, <1>4, <2>7 DEF TypeOK, serverVars
  <2>9. QED
    BY <1>6, <1>7, <1>8, <2>6, <2>7, <2>8 DEF BotInv
<1>12. QED
  BY <1>10, <1>11

LEMMA FetchFailsKeeps == ASSUME BotInv, FetchFails PROVE BotInv'
<1>1. TypeOK /\ ChainFits /\ TasksFit /\ SetFits /\ FetchFollowsTheQueue /\ EntriesFit /\ TimerFits /\ GraceFollowsTheRoom
  BY DEF BotInv
<1>2. /\ set # None /\ audio # None /\ audio' = [audio EXCEPT !.reported = TRUE] /\ chain' = Append(chain, [kind |-> "failed", set |-> set.id, entry |-> audio.entry])
      /\ UNCHANGED <<step, set, closing, playback, timer, waits, minted, serverVars, toServer, toBot, spent>>
  BY DEF FetchFails
<1>3. audio' \in Fetches /\ audio'.entry = audio.entry /\ audio.entry \in Nat /\ audio' # None
  BY <1>1, <1>2, NoneAssumption DEF TypeOK, Fetches
<1>4. PICK e \in Tasks : e = [kind |-> "failed", set |-> set.id, entry |-> audio.entry]
  BY <1>2, <1>3, BotInvFacts, SetFields DEF Tasks
<1>5. chain' \in Seq(Tasks) /\ ChainFits'
  BY <1>2, <1>4, LongerChain
<1>6. TypeOK'
  BY <1>1, <1>2, <1>3, <1>5 DEF TypeOK, serverVars
<1>7. SetFits' /\ EntriesFit' /\ TimerFits' /\ GraceFollowsTheRoom'
  BY <1>1, <1>2 DEF SetFits, PlayerFits, EntriesFit, Distinct, TimerFits, GraceFollowsTheRoom
<1>8. FetchFollowsTheQueue'
  BY <1>1, <1>2, <1>3 DEF FetchFollowsTheQueue
<1>9. ASSUME NEW t \in Tasks, TaskFits(t) PROVE TaskFits(t)'
  BY <1>2, <1>9 DEF TaskFits, SetIs, In
<1>10. TaskFits(e)'
  BY <1>4 DEF TaskFits
<1>11. TasksFit'
  BY <1>1, <1>2, <1>4, <1>9, <1>10, SameTasks
<1>12. QED
  BY <1>5, <1>6, <1>7, <1>8, <1>11 DEF BotInv

LEMMA GraceFiresKeeps == ASSUME BotInv, GraceFires PROVE BotInv'
<1>1. TypeOK /\ ChainFits /\ TasksFit /\ SetFits /\ FetchFollowsTheQueue /\ EntriesFit /\ TimerFits /\ GraceFollowsTheRoom
  BY DEF BotInv
<1>2. /\ timer # None /\ timer' = [timer EXCEPT !.running = FALSE] /\ chain' = Append(chain, [kind |-> "grace", set |-> timer.set, wait |-> timer.wait])
      /\ UNCHANGED <<step, set, closing, playback, audio, waits, minted, serverVars, toServer, toBot, spent>>
  BY DEF GraceFires
<1>3. /\ timer' \in Timers /\ timer'.set = timer.set /\ timer'.wait = timer.wait /\ ~timer'.running
      /\ timer.set \in Nat /\ timer.wait \in Nat /\ timer' # None
  BY <1>1, <1>2, NoneAssumption DEF TypeOK, Timers
<1>4. PICK e \in Tasks : e = [kind |-> "grace", set |-> timer.set, wait |-> timer.wait]
  BY <1>3 DEF Tasks
<1>5. chain' \in Seq(Tasks) /\ ChainFits'
  BY <1>2, <1>4, LongerChain
<1>6. TypeOK'
  BY <1>1, <1>2, <1>3, <1>5 DEF TypeOK, serverVars
<1>7. SetFits' /\ EntriesFit' /\ FetchFollowsTheQueue'
  BY <1>1, <1>2 DEF SetFits, PlayerFits, EntriesFit, Distinct, FetchFollowsTheQueue
<1>8. TimerFits' /\ GraceFollowsTheRoom'
  BY <1>1, <1>2, <1>3 DEF TimerFits, GraceFollowsTheRoom
<1>9. ASSUME NEW t \in Tasks, TaskFits(t) PROVE TaskFits(t)'
  BY <1>2, <1>3, <1>9 DEF TaskFits, SetIs, In
<1>10. TaskFits(e)'
  BY <1>1, <1>2, <1>3, <1>4 DEF TaskFits, TimerFits
<1>11. TasksFit'
  BY <1>1, <1>2, <1>4, <1>9, <1>10, SameTasks
<1>12. QED
  BY <1>5, <1>6, <1>7, <1>8, <1>11 DEF BotInv

LEMMA MessageFields ==
    ASSUME NEW m \in Messages
    PROVE  /\ m.kind = "command" => m.task \in Tasks /\ m.task.kind \notin {"ended", "failed", "grace"}
           /\ m.kind = "snapshot" => m.room \in Rooms /\ m.roster \subseteq Listeners \cup {Bot} /\ m.mic \in BOOLEAN
           /\ m.kind = "forceLeave" => m.room \in Rooms
           /\ m.kind = "joinAck" => m.set \in Nat /\ m.ok \in BOOLEAN
           /\ m.kind \in {"command", "snapshot", "forceLeave", "joinAck"}
  BY DEF Messages, Tasks, MemberTasks

LEMMA FirstMessage ==
    ASSUME TypeOK, toBot # <<>>
    PROVE  Head(toBot) \in Messages /\ Tail(toBot) \in Seq(Messages)
  BY HeadAndTail DEF TypeOK

\* What reading a message leaves alone, whatever it says.
Reads == /\ toBot # <<>> /\ toBot' = Tail(toBot)
         /\ UNCHANGED <<closing, minted, serverVars, spent>>

LEMMA ChainGrows ==
    ASSUME BotInv, Reads, NEW t \in Tasks, t.kind \notin {"ended", "grace"}, chain' = Append(chain, t),
           UNCHANGED <<step, set, playback, audio, timer, waits, toServer>>
    PROVE  BotInv'
BY LongerChain, FirstMessage, QueueSame, SameTasks DEF BotInv, Reads, TypeOK, serverVars, TaskFits

LEMMA NothingRead ==
    ASSUME BotInv, Reads, UNCHANGED <<chain, step, set, playback, audio, timer, waits, toServer>>
    PROVE  BotInv'
BY FirstMessage, BotUnchanged DEF BotInv, Reads, botVars, serverVars, TypeOK

LEMMA JoinAckKeeps ==
    ASSUME BotInv, Reads, Head(toBot).kind = "joinAck", JoinAck(Head(toBot)) PROVE BotInv'
<1> DEFINE m == Head(toBot)
<1>1. /\ TypeOK /\ ChainFits /\ TasksFit /\ SetFits /\ FetchFollowsTheQueue /\ EntriesFit /\ TimerFits
      /\ GraceFollowsTheRoom
  BY DEF BotInv
<1>2. UNCHANGED <<chain, playback, audio, timer, waits, toServer, closing, minted, serverVars, spent>>
  BY DEF JoinAck, Reads
<1>3. CASE UNCHANGED <<set, step>>
  BY <1>2, <1>3, NothingRead
<1>4. CASE step = "joining" /\ SetIs(m.set) /\ ~UNCHANGED <<set, step>>
  <2>1. set \in Sets /\ set # None /\ chain # <<>> /\ Task.kind = "add" /\ closing = None
    BY <1>1, <1>4, BotInvFacts DEF SetIs, ChainFits
  <2>2. \/ step' = "adding" /\ set' = [set EXCEPT !.joined = TRUE]
        \/ step' = "refused" /\ set' = [set EXCEPT !.ended = TRUE, !.sounding = FALSE]
    BY <1>4 DEF JoinAck
  <2>3. /\ set' \in Sets /\ set'.id = set.id /\ set'.room = set.room /\ set'.roster = set.roster
        /\ set'.requested = set.requested /\ set'.silenced = set.silenced /\ set'.track = set.track
        /\ set'.finished = set.finished
        /\ \/ step' = "adding" /\ set'.joined /\ set'.ended = set.ended /\ set'.sounding = set.sounding
           \/ step' = "refused" /\ set'.joined = set.joined /\ set'.ended
    BY <2>1, <2>2 DEF Sets
  <2>4. set' # None
    BY <2>3, SetFields
  <2>5. TypeOK'
    BY <1>1, <1>2, <2>3, FirstMessage DEF TypeOK, Steps, serverVars, Reads
  <2>6. ChainFits'
    BY <1>2, <2>1, <2>3, <2>4 DEF ChainFits, Task
  <2>7. SetFits'
    BY <1>1, <1>2, <1>4, <2>1, <2>3, <2>4 DEF SetFits, PlayerFits
  <2>8. EntriesFit' /\ TimerFits' /\ FetchFollowsTheQueue' /\ GraceFollowsTheRoom'
    BY <1>1, <1>2, <2>1, <2>3, <2>4
    DEF EntriesFit, Distinct, TimerFits, FetchFollowsTheQueue, GraceFollowsTheRoom
  <2>9. ASSUME NEW t \in Tasks, TaskFits(t) PROVE TaskFits(t)'
    BY <1>2, <2>1, <2>3, <2>4, <2>9 DEF TaskFits, SetIs, In
  <2>10. TasksFit'
    BY <1>1, <1>2, <2>9, SameTasks
  <2>11. QED
    BY <2>5, <2>6, <2>7, <2>8, <2>10 DEF BotInv
<1>5. QED
  BY <1>3, <1>4 DEF JoinAck

\* The microphone first: the player is told of a mute, and sounds as it may.
Moderated(m) == Bot \in m.roster /\ m.mic = set.silenced
Heard(m) == IF Moderated(m) THEN Synced([set EXCEPT !.silenced = ~@]) ELSE set

LEMMA HeardFields ==
    ASSUME TypeOK, SetFits, set # None, ~set.ended, NEW m \in Messages
    PROVE  /\ Heard(m) \in Sets /\ PlayerFits(Heard(m), playback)
           /\ Heard(m).id = set.id /\ Heard(m).room = set.room /\ Heard(m).joined = set.joined
           /\ Heard(m).ended = set.ended /\ Heard(m).roster = set.roster /\ Heard(m).finished = set.finished
<1>1. set \in Sets /\ PlayerFits(set, playback) /\ playback \in PlaybackState
  BY DEF TypeOK, SetFits
<1>2. CASE ~Moderated(m)
  BY <1>1, <1>2 DEF Heard
<1>3. CASE Moderated(m)
  <2> DEFINE b == ~set.silenced
             s == [set EXCEPT !.silenced = b]
  <2>1. b \in BOOLEAN
    OBVIOUS
  <2>2. Heard(m) = Synced(s)
    BY <1>3 DEF Heard
  <2> HIDE DEF b
  <2>3. /\ s \in Sets /\ s.id = set.id /\ s.room = set.room /\ s.joined = set.joined /\ s.ended = set.ended
        /\ s.roster = set.roster /\ s.requested = set.requested /\ s.track = set.track /\ s.finished = set.finished
    BY <1>1, <2>1 DEF Sets
  <2> HIDE DEF s
  <2>4. /\ Heard(m) \in Sets /\ SameSet(s, Heard(m))
        /\ Heard(m).requested = s.requested /\ Heard(m).track = s.track /\ Heard(m).finished = s.finished
        /\ Heard(m).sounding <=> s.requested /\ ~s.silenced /\ s.track # None /\ ~s.finished
    BY <2>2, <2>3, SyncedFields
  <2>5. s.requested /\ ~s.finished => s.track # None
    BY NoneAssumption, <1>1, StateFields, HeadAndTail, <2>3 DEF PlayerFits
  <2>6. QED
    BY <1>1, <2>3, <2>4, <2>5 DEF SameSet, PlayerFits
<1>4. QED
  BY <1>2, <1>3

\* Then the roster, which the Grace period and the panels hang on.
LEMMA SnapshotKeeps ==
    ASSUME BotInv, Reads, Head(toBot).kind = "snapshot", Snapshot(Head(toBot)) PROVE BotInv'
<1>1. /\ TypeOK /\ ChainFits /\ TasksFit /\ SetFits /\ FetchFollowsTheQueue /\ EntriesFit /\ TimerFits
      /\ GraceFollowsTheRoom
  BY DEF BotInv
<1>2. /\ UNCHANGED <<chain, step, closing, minted, serverVars, spent>> /\ toBot' \in Seq(Messages)
  BY <1>1, FirstMessage DEF Snapshot, Reads
<1>3. PICK m \in Messages : m = Head(toBot)
  BY <1>1, FirstMessage DEF Reads
<1>4. CASE ~SetIn(m.room) \/ set.ended
  BY <1>3, <1>4, <1>2, NothingRead DEF Snapshot
<1>5. CASE SetIn(m.room) /\ ~set.ended
  <2>1. /\ set # None /\ set \in Sets
        /\ Heard(m) \in Sets /\ PlayerFits(Heard(m), playback)
        /\ Heard(m).id = set.id /\ Heard(m).room = set.room /\ Heard(m).joined = set.joined
        /\ Heard(m).ended = set.ended /\ Heard(m).roster = set.roster /\ Heard(m).finished = set.finished
    BY <1>1, <1>5, BotInvFacts, HeardFields DEF SetIn
  <2>2. CASE m.roster = set.roster
    <3>1. set' = Heard(m) /\ UNCHANGED <<playback, audio, timer, waits, toServer>>
      BY <1>3, <1>5, <2>2 DEF Snapshot, Heard, Moderated
    <3>2. set' # None
      BY <2>1, <3>1, SetFields
    <3>3. TypeOK' /\ ChainFits'
      BY <1>1, <1>2, <2>1, <3>1, <3>2 DEF TypeOK, serverVars, ChainFits, Task
    <3>4. SetFits'
      BY <1>1, <1>2, <1>5, <2>1, <3>1, <3>2 DEF SetFits, PlayerFits
    <3>5. EntriesFit' /\ TimerFits' /\ FetchFollowsTheQueue' /\ GraceFollowsTheRoom'
      BY <1>1, <1>2, <2>1, <3>1, <3>2
      DEF EntriesFit, Distinct, TimerFits, FetchFollowsTheQueue, GraceFollowsTheRoom
    <3>6. ASSUME NEW t \in Tasks, TaskFits(t) PROVE TaskFits(t)'
      BY <1>2, <2>1, <3>1, <3>2, <3>6 DEF TaskFits, SetIs, In
    <3>7. TasksFit'
      BY <1>1, <1>2, <3>6, SameTasks
    <3>8. QED
      BY <3>3, <3>4, <3>5, <3>7 DEF BotInv
  <2>3. CASE m.roster # set.roster
    <3> DEFINE told == [Heard(m) EXCEPT !.roster = m.roster]
               result == IF m.roster \subseteq {Bot} THEN RoomEmptied(playback) ELSE ListenerReturned(playback)
    <3>1. Advance(told, result, Welcome)
      BY <1>3, <1>5, <2>3 DEF Snapshot, Heard, Moderated
    <3>2. m.roster \subseteq Listeners \cup {Bot}
      BY <1>3, MessageFields
    <3>3. /\ told \in Sets /\ PlayerFits(told, playback) /\ told.id = set.id /\ told.room = set.room
          /\ told.joined = set.joined /\ told.ended = set.ended /\ told.finished = set.finished
          /\ told.roster = m.roster
      <4>1. ASSUME NEW s \in Sets, NEW q \in SUBSET (Listeners \cup {Bot})
            PROVE  /\ [s EXCEPT !.roster = q] \in Sets /\ [s EXCEPT !.roster = q].roster = q
                   /\ [s EXCEPT !.roster = q].id = s.id /\ [s EXCEPT !.roster = q].room = s.room
                   /\ [s EXCEPT !.roster = q].joined = s.joined /\ [s EXCEPT !.roster = q].ended = s.ended
                   /\ [s EXCEPT !.roster = q].finished = s.finished
                   /\ [s EXCEPT !.roster = q].requested = s.requested
                   /\ [s EXCEPT !.roster = q].silenced = s.silenced
                   /\ [s EXCEPT !.roster = q].sounding = s.sounding
                   /\ [s EXCEPT !.roster = q].track = s.track
        BY DEF Sets
      <4>2. /\ told \in Sets /\ told.roster = m.roster /\ told.id = Heard(m).id /\ told.room = Heard(m).room
            /\ told.joined = Heard(m).joined /\ told.ended = Heard(m).ended
            /\ told.finished = Heard(m).finished /\ told.requested = Heard(m).requested
            /\ told.silenced = Heard(m).silenced /\ told.sounding = Heard(m).sounding
            /\ told.track = Heard(m).track
        BY <2>1, <3>2, <4>1
      <4> HIDE DEF told
      <4>3. PlayerFits(told, playback)
        BY <2>1, <4>2 DEF PlayerFits
      <4>4. QED
        BY <2>1, <4>2, <4>3
    <3>4. /\ result.state \in PlaybackState /\ result.state.entries = playback.entries
          /\ result.state.playing = playback.playing /\ Keeps(playback, result)
          /\ result = RoomEmptied(playback) =>
                 /\ result.state.awaitingReturn
                 /\ "cancelGracePeriod" \notin result.effects
                 /\ "startGracePeriod" \in result.effects <=> ~playback.awaitingReturn
          /\ result = ListenerReturned(playback) =>
                 ~result.state.awaitingReturn /\ "startGracePeriod" \notin result.effects
      BY BotInvFacts, RosterResult
    <3>5. /\ m.roster \subseteq {Bot} => result = RoomEmptied(playback)
          /\ ~(m.roster \subseteq {Bot}) => result = ListenerReturned(playback)
      OBVIOUS
    <3> HIDE DEF told, result
    <3>6. Welcome \in Seq(Requests)
      BY <2>1, BotInvFacts, SetFields, StateFields DEF Requests, Queues, Welcome, PublishedQueue
    <3>7. /\ playback' = result.state /\ set' \in Sets /\ SameSet(told, set') /\ PlayerFits(set', playback')
          /\ EntriesFit' /\ FetchFollowsTheQueue' /\ TimerFits'
          /\ audio' \in Fetches \cup {None} /\ timer' \in Timers \cup {None} /\ waits' \in Nat
          /\ toServer' \in Seq(Requests)
          /\ \A t \in Tasks : TaskFits(t) => TaskFits(t)'
      <4>1. Distinct(result.state.entries) /\ Fits(playback, result, set.finished)
        BY <3>4, BotInvFacts DEF Fits
      <4>2. /\ minted' \in [sets: Nat, entries: Nat] /\ minted.sets <= minted'.sets
            /\ minted.entries <= minted'.entries
        BY <1>1, <1>2 DEF TypeOK
      <4>3. \A x : In(x, result.state.entries) =>
                    In(x, playback.entries) \/ (x = minted.entries + 1 /\ x <= minted'.entries)
        BY <3>4
      <4>4. QED
        BY <2>1, <3>1, <3>3, <3>4, <3>6, <4>1, <4>2, <4>3, AdvanceKeeps
    <3>8. set' # None
      BY <3>7, SetFields
    <3>9. TypeOK' /\ ChainFits'
      BY <1>1, <1>2, <2>1, <3>4, <3>7, <3>8 DEF TypeOK, serverVars, ChainFits, Task
    <3>10. SetFits'
      BY <1>1, <1>2, <2>1, <3>3, <3>7, <3>8 DEF SetFits, SameSet
    <3>11. GraceFollowsTheRoom'
      <4>1. set'.roster = m.roster /\ set'.id = set.id /\ playback' = result.state
        BY <3>3, <3>7 DEF SameSet
      <4>2. /\ waits' = IF "startGracePeriod" \in result.effects THEN waits + 1 ELSE waits
            /\ timer' = IF "startGracePeriod" \in result.effects
                        THEN [set |-> told.id, wait |-> waits + 1, running |-> TRUE]
                        ELSE IF "cancelGracePeriod" \in result.effects THEN None ELSE timer
        BY <3>1 DEF Advance
      <4>3. CASE ~(m.roster \subseteq {Bot})
        BY <3>4, <3>5, <3>8, <4>1, <4>3 DEF GraceFollowsTheRoom
      <4>4. CASE m.roster \subseteq {Bot} /\ playback.awaitingReturn
        BY <3>5, <4>4, <3>4, <4>1, <4>2, <1>1, <2>1, <3>8 DEF GraceFollowsTheRoom
      <4>5. CASE m.roster \subseteq {Bot} /\ ~playback.awaitingReturn
        <5>1. waits' = waits + 1 /\ timer' = [set |-> told.id, wait |-> waits + 1, running |-> TRUE]
          BY <3>4, <3>5, <4>2, <4>5
        <5>2. [set |-> told.id, wait |-> waits + 1, running |-> TRUE] \in Timers
          BY <3>3, BotInvFacts, SetFields DEF Timers
        <5>3. timer' # None
          BY <5>1, <5>2, NoneAssumption
        <5>4. QED
          BY <3>3, <3>4, <3>5, <3>8, <4>1, <4>5, <5>1, <5>3 DEF GraceFollowsTheRoom
      <4>6. QED
        BY <4>3, <4>4, <4>5
    <3>12. TasksFit'
      BY <1>1, <1>2, <3>7, SameTasks
    <3>13. QED
      BY <3>7, <3>9, <3>10, <3>11, <3>12 DEF BotInv
  <2>4. QED
    BY <2>2, <2>3
<1>6. QED
  BY <1>4, <1>5

LEMMA BotReceivesKeeps == ASSUME BotInv, BotReceives PROVE BotInv'
BY FirstMessage, MessageFields, ChainGrows, SnapshotKeeps, BotInvFacts, SetFields, NothingRead, JoinAckKeeps
   DEF BotInv, BotReceives, Reads, Enqueue, SetIn, Tasks, ForceLeave

------------------------
(* The steps of the server and of the people. *)

LEMMA SnapshotTyped ==
    ASSUME NEW r, NEW where, NEW bot, NEW isMuted
    PROVE  /\ r \in Rooms => SnapshotOf(r, where, bot, isMuted) \in Seq(Messages)
           /\ r \in Rooms \cup {None} => SnapshotIfAny(r, where, bot, isMuted) \in Seq(Messages)
<1> DEFINE q == ListenersIn(where, r) \cup {b \in {Bot} : bot = r}
           c == bot = r /\ ~isMuted
<1>1. q \subseteq Listeners \cup {Bot} /\ c \in BOOLEAN
  BY DEF ListenersIn
<1>2. SnapshotOf(r, where, bot, isMuted) = <<[kind |-> "snapshot", room |-> r, roster |-> q, mic |-> c]>>
  BY DEF SnapshotOf
<1> HIDE DEF q, c
<1>3. ASSUME r \in Rooms PROVE [kind |-> "snapshot", room |-> r, roster |-> q, mic |-> c] \in Messages
  BY <1>1, <1>3 DEF Messages
<1>4. r \in Rooms => SnapshotOf(r, where, bot, isMuted) \in Seq(Messages)
  BY <1>2, <1>3
<1>5. QED
  BY <1>4 DEF SnapshotIfAny

LEMMA RequestFields ==
    ASSUME NEW m \in Requests
    PROVE  /\ m.kind \in {"join", "leave", "publish"} /\ m.room \in Rooms
           /\ m.kind = "join" => m.set \in Nat
           /\ m.kind = "publish" => m.queue \in Queues
  BY DEF Requests

LEMMA FirstRequest ==
    ASSUME TypeOK, toServer # <<>>
    PROVE  Head(toServer) \in Requests /\ Tail(toServer) \in Seq(Requests)
  BY HeadAndTail DEF TypeOK

LEMMA Sent ==
    ASSUME toBot \in Seq(Messages), NEW a \in Seq(Messages), NEW b \in Seq(Messages), NEW c \in Seq(Messages)
    PROVE  toBot \o a \in Seq(Messages) /\ toBot \o a \o b \in Seq(Messages) /\ toBot \o a \o b \o c \in Seq(Messages)
  OBVIOUS

LEMMA CommandKeeps == ASSUME BotInv, Command PROVE BotInv'
<1>1. TypeOK
  BY DEF BotInv
<1>2. PICK t \in MemberTasks : toBot' = Append(toBot, [kind |-> "command", task |-> t])
  <2>1. PICK r \in Rooms :
          \/ \E k \in {"add", "play", "stop", "leave"} : Ask(r, [kind |-> k, room |-> r])
          \/ \E k \in {"skip", "remove"} : \E e \in 1..minted.entries : Ask(r, [kind |-> k, room |-> r, entry |-> e])
    BY DEF Command
  <2>2. CASE \E k \in {"add", "play", "stop", "leave"} : Ask(r, [kind |-> k, room |-> r])
    BY <2>2 DEF MemberTasks, Ask
  <2>3. CASE \E k \in {"skip", "remove"} : \E e \in 1..minted.entries : Ask(r, [kind |-> k, room |-> r, entry |-> e])
    <3>1. PICK k \in {"skip", "remove"}, e \in 1..minted.entries : Ask(r, [kind |-> k, room |-> r, entry |-> e])
      BY <2>3
    <3>2. [kind |-> k, room |-> r, entry |-> e] \in MemberTasks
      BY <1>1 DEF MemberTasks, TypeOK
    <3>3. QED
      BY <3>1, <3>2 DEF Ask
  <2>4. QED
    BY <2>1, <2>2, <2>3
<1>3. [kind |-> "command", task |-> t] \in Messages
  BY DEF Messages
<1>4. toBot' \in Seq(Messages)
  BY <1>1, <1>2, <1>3, Appended DEF TypeOK
<1>5. UNCHANGED <<botVars, serverVars, toServer>>
  BY DEF Command, Ask
<1>6. QED
  BY <1>1, <1>4, <1>5, BotUnchanged DEF TypeOK, serverVars

LEMMA ServerReceivesKeeps == ASSUME BotInv, ServerReceives PROVE BotInv'
<1>1. TypeOK
  BY DEF BotInv
<1>2. /\ toServer # <<>> /\ toServer' \in Seq(Requests) /\ UNCHANGED <<botVars, muted, location, spent>>
      /\ Head(toServer) \in Requests
  BY <1>1, FirstRequest DEF ServerReceives
<1>3. PICK m \in Requests : m = Head(toServer)
  BY <1>2
<1>4. botRoom' \in Rooms \cup {None} /\ toBot' \in Seq(Messages) /\ panel' \in [Watchers -> [Rooms -> Queues]]
  <2>1. CASE m.kind = "join" /\ JoinsServer(m)
    <3> DEFINE left == IF botRoom = m.room THEN None ELSE botRoom
    <3>1. m.room \in Rooms /\ m.set \in Nat /\ left \in Rooms \cup {None}
      BY <1>1, <2>1, RequestFields DEF TypeOK
    <3>2. <<[kind |-> "joinAck", set |-> m.set, ok |-> TRUE]>> \in Seq(Messages)
      BY <3>1 DEF Messages
    <3>3. /\ SnapshotIfAny(left, location, m.room, muted) \in Seq(Messages)
          /\ SnapshotOf(m.room, location, m.room, muted) \in Seq(Messages)
      BY <3>1, SnapshotTyped
    <3>4. toBot' = toBot \o SnapshotIfAny(left, location, m.room, muted)
                         \o <<[kind |-> "joinAck", set |-> m.set, ok |-> TRUE]>>
                         \o SnapshotOf(m.room, location, m.room, muted)
      BY <2>1 DEF JoinsServer
    <3> HIDE DEF left
    <3>5. toBot' \in Seq(Messages)
      BY <1>1, <3>2, <3>3, <3>4, Sent DEF TypeOK
    <3>6. QED
      BY <1>1, <2>1, <3>1, <3>5 DEF JoinsServer, TypeOK
  <2>2. CASE m.kind = "join" /\ JoinRefused(m)
    BY <2>2, RequestFields, <1>1, Appended DEF Messages, JoinRefused, TypeOK
  <2>3. CASE m.kind = "leave" /\ LeavesServer(m)
    BY RequestFields, SnapshotTyped, <1>1, Sent, <2>3 DEF TypeOK, LeavesServer
  <2>4. CASE m.kind = "publish" /\ Publishes(m)
    BY <2>4, RequestFields, <1>1 DEF TypeOK, Publishes
  <2>5. QED
    BY <1>2, <1>3, <2>1, <2>2, <2>3, <2>4 DEF ServerReceives
<1>5. QED
  BY <1>1, <1>2, <1>4, BotUnchanged DEF TypeOK

LEMMA OwnerKeeps == ASSUME BotInv, OwnerNext PROVE BotInv'
<1>1. TypeOK
  BY DEF BotInv
<1>2. CASE Evict
  <2>1. PICK told \in {SnapshotOf(botRoom, location, None, muted), <<>>} :
            toBot' = toBot \o told \o <<[kind |-> "forceLeave", room |-> botRoom]>>
    BY <1>2 DEF Evict
  <2>2. told \in Seq(Messages)
    <3>1. botRoom \in Rooms
      BY <1>1, <1>2 DEF Evict, TypeOK
    <3>2. SnapshotOf(botRoom, location, None, muted) \in Seq(Messages) /\ <<>> \in Seq(Messages)
      BY <3>1, SnapshotTyped
    <3>3. QED
      BY <3>2
  <2>3. <<[kind |-> "forceLeave", room |-> botRoom]>> \in Seq(Messages)
    <3>1. [kind |-> "forceLeave", room |-> botRoom] \in Messages
      BY <1>1, <1>2 DEF Evict, TypeOK, Messages
    <3>2. QED
      BY <3>1
  <2>4. toBot' \in Seq(Messages)
    BY <1>1, <2>1, <2>2, <2>3, Sent DEF TypeOK
  <2>5. QED
    BY <1>1, <1>2, <2>4, BotUnchanged DEF Evict, TypeOK
<1>3. CASE Moderate
  <2>1. SnapshotIfAny(botRoom, location, botRoom, ~muted) \in Seq(Messages)
    BY <1>1, SnapshotTyped DEF TypeOK
  <2>2. toBot' \in Seq(Messages)
    BY <1>1, <1>3, <2>1, Sent DEF Moderate, TypeOK
  <2>3. QED
    BY <1>1, <1>3, <2>2, BotUnchanged DEF Moderate, TypeOK
<1>4. CASE \E u \in Listeners, r \in Rooms \cup {None} : Move(u, r)
  <2>1. PICK u \in Listeners, r \in Rooms \cup {None} : Move(u, r)
    BY <1>4
  <2> DEFINE where == [location EXCEPT ![u] = r]
  <2>2. /\ location' = where /\ location[u] \in Rooms \cup {None}
        /\ toBot' = toBot \o SnapshotIfAny(location[u], where, botRoom, muted)
                          \o SnapshotIfAny(r, where, botRoom, muted)
        /\ UNCHANGED <<botVars, botRoom, muted, panel, toServer>>
    BY <1>1, <2>1 DEF Move, TypeOK
  <2>3. location' \in [Listeners -> Rooms \cup {None}]
    BY <1>1, <2>2 DEF TypeOK
  <2> HIDE DEF where
  <2>4. /\ SnapshotIfAny(location[u], where, botRoom, muted) \in Seq(Messages)
        /\ SnapshotIfAny(r, where, botRoom, muted) \in Seq(Messages)
    BY <2>2, SnapshotTyped
  <2>5. toBot' \in Seq(Messages)
    BY <1>1, <2>2, <2>4, Sent DEF TypeOK
  <2>6. QED
    BY <1>1, <2>2, <2>3, <2>5, BotUnchanged DEF TypeOK
<1>5. QED
  BY <1>2, <1>3, <1>4 DEF OwnerNext

LEMMA BotInvInit == Init => BotInv
<1> SUFFICES ASSUME Init PROVE BotInv
  OBVIOUS
<1>1. EmptyPlayback \in PlaybackState /\ EmptyPlayback.entries = <<>> /\ ~EmptyPlayback.playing
      /\ ~EmptyPlayback.awaitingReturn
  BY PlaybackAssumption DEF EmptyPlayback, PlaybackState
<1>2. location \in [Listeners -> Rooms \cup {None}] /\ muted \in BOOLEAN
  <2>1. location \in [Listeners -> Rooms \cup {None}]
    BY DEF Init
  <2>2. (MuteBound > 0) \in BOOLEAN
    OBVIOUS
  <2>3. muted \in BOOLEAN
    BY <2>2 DEF Init
  <2>4. QED
    BY <2>1, <2>3
<1>3. panel \in [Watchers -> [Rooms -> Queues]]
  <2>1. [entries |-> <<>>, playing |-> FALSE] \in Queues
    BY DEF Queues
  <2>2. QED
    BY <2>1 DEF Init
<1>4. TypeOK
  BY <1>1, <1>2, <1>3 DEF Init, TypeOK, Steps
<1>5. ChainFits /\ TasksFit /\ TimerFits
  BY DEF Init, ChainFits, TasksFit, TimerFits
<1>6. SetFits /\ EntriesFit /\ FetchFollowsTheQueue /\ GraceFollowsTheRoom
  BY <1>1 DEF Init, SetFits, EntriesFit, Distinct, FetchFollowsTheQueue, GraceFollowsTheRoom
<1>7. QED
  BY <1>4, <1>5, <1>6 DEF BotInv

LEMMA BotInvNext == BotInv /\ [Next]_vars => BotInv'
<1> SUFFICES ASSUME BotInv, [Next]_vars PROVE BotInv'
  OBVIOUS
<1>1. CASE UNCHANGED vars
  BY <1>1, BotUnchanged DEF BotInv, vars, serverVars, TypeOK
<1>2. CASE ChainNext
  BY <1>2, AddBeginsKeeps, AddResolvedKeeps, BeginKeeps, EndingKeeps, AddEndsKeeps, ApplyAtOnceKeeps,
     ApplyNothingKeeps, ClosedKeeps DEF ChainNext
<1>3. CASE Next /\ ~ChainNext
  BY <1>3, CommandKeeps, PlayerFinishesKeeps, FetchFailsKeeps, GraceFiresKeeps, BotReceivesKeeps,
     ServerReceivesKeeps, OwnerKeeps DEF Next
<1>4. QED
  BY <1>1, <1>2, <1>3

\* The first layer holds of every behaviour.
LEMMA BotInvHolds == Spec => []BotInv
  BY BotInvInit, BotInvNext, PTL DEF Spec

\* Whatever order skips, ends, failures, pauses, mutes and rosters come in: the player
\* and the fetch follow the Queue, and the Grace period follows the room.
THEOREM TheSetIsServed ==
    Spec => [](TypeOK /\ PlayerFollowsTheQueue /\ FetchFollowsTheQueue /\ GraceFollowsTheRoom)
<1>1. BotInv => TypeOK /\ PlayerFollowsTheQueue /\ FetchFollowsTheQueue /\ GraceFollowsTheRoom
  BY DEF BotInv, SetFits, PlayerFits, PlayerFollowsTheQueue
<1>2. QED
  BY <1>1, BotInvHolds, PTL

\* An expiry waits its turn behind whatever else was asked, and ends the Set only if
\* the room is still empty and no later clock runs.
THEOREM GraceIsNotCutShort == Spec => GraceNeverCutsAWaitShort
<1>1. ASSUME BotInv, ApplyEnding, Task.kind = "grace"
      PROVE  set.roster \subseteq {Bot} /\ (timer = None \/ ~timer.running)
  BY <1>1, TaskFields DEF BotInv, ApplyEnding, EndsTheSet, SetIs, TasksFit, TaskFits, GraceFollowsTheRoom
<1>2. BotInv => [ApplyEnding /\ Task.kind = "grace" =>
                    set.roster \subseteq {Bot} /\ (timer = None \/ ~timer.running)]_vars
  BY <1>1
<1>3. QED
  BY <1>2, BotInvHolds, PTL DEF GraceNeverCutsAWaitShort

\* However requests, reports and new Tracks meet in the chain, a Track leaves the Queue
\* of a Set that goes on by its own name or not at all.
THEOREM NothingLeavesUnnamed == Spec => TracksLeaveByName
<1> DEFINE Step == \A i \in DOMAIN playback.entries :
                LET e == playback.entries[i]
                IN  set' # None /\ set # None =>
                        \/ \E j \in DOMAIN playback.entries' : playback.entries'[j] = e
                        \/ Task.kind \in {"skip", "remove", "ended", "failed"} /\ Task.entry = e
<1>1. ASSUME BotInv, Next, set # None, set' # None, playback' # playback PROVE Step
  <2>1. \/ AddEnds
        \/ ApplyAtOnce /\ About(Task) /\ Advance(set, Result, <<>>)
        \/ BotReceives /\ Snapshot(Head(toBot))
    BY <1>1 DEF Next, ChainNext, OwnerNext, Command, Ask, AddBegins, AddUnresolved, AddResolved, Begin, JoinTimesOut,
       Recover, ApplyAtOnce, ApplyEnding, ApplyNothing, ForgetQueue, EndSet, Closed, PlayerFinishes, FetchFails,
       GraceFires, BotReceives, ForceLeave, JoinAck, Enqueue, ServerReceives, Evict, Moderate, Move, botVars
  <2>2. CASE AddEnds
    <3>1. playback' = Added(playback, minted.entries + 1).state
      BY <2>2 DEF AddEnds, Advance
    <3>2. minted.entries + 1 \in Nat /\ ~In(minted.entries + 1, playback.entries)
      BY <1>1, BotInvFacts
    <3>3. \A x : In(x, playback.entries) => In(x, playback'.entries)
      <4> DEFINE r == Added(playback, minted.entries + 1)
      <4>1. playback \in PlaybackState /\ Distinct(playback.entries)
        BY <1>1, BotInvFacts
      <4>2. \A x : In(x, playback.entries) => In(x, r.state.entries)
        BY <3>2, <4>1, AddedResult
      <4>3. QED
        BY <3>1, <4>2
    <3>4. QED
      BY <3>3 DEF In
  <2>3. CASE ApplyAtOnce /\ About(Task) /\ Advance(set, Result, <<>>)
    BY <2>3, <1>1, ResultFits DEF Advance, ApplyAtOnce, In
  <2>4. CASE BotReceives /\ Snapshot(Head(toBot))
    BY <1>1, <2>4, BotInvFacts, RosterResult DEF Snapshot, Advance
  <2>5. QED
    BY <2>1, <2>2, <2>3, <2>4
<1>2. ASSUME BotInv, playback' = playback PROVE Step
  BY <1>2
<1>3. ASSUME set = None \/ set' = None PROVE Step
  BY <1>3
<1>4. BotInv => [Step]_vars \/ ~[Next]_vars
  BY <1>1, <1>2, <1>3
<1>5. QED
  BY <1>4, BotInvHolds, PTL DEF Spec, TracksLeaveByName

------------------------
(* What a step makes of the socket. *)

\* A sequence followed by another.
LEMMA Grown ==
    ASSUME NEW E, NEW s \in Seq(E), NEW a \in Seq(E)
    PROVE  /\ s \o a \in Seq(E) /\ Len(s) \in Nat /\ Len(a) \in Nat /\ Len(s \o a) = Len(s) + Len(a)
           /\ \A i \in DOMAIN s : i \in DOMAIN (s \o a) /\ (s \o a)[i] = s[i] /\ i <= Len(s)
           /\ \A j \in DOMAIN a : Len(s) + j \in DOMAIN (s \o a) /\ (s \o a)[Len(s) + j] = a[j]
           /\ \A i \in DOMAIN (s \o a) :
                 i \in DOMAIN s \/ (i - Len(s) \in DOMAIN a /\ (s \o a)[i] = a[i - Len(s)] /\ i > Len(s))
  OBVIOUS

LEMMA Lengths ==
    ASSUME NEW E, NEW s \in Seq(E)
    PROVE  /\ DOMAIN s = 1..Len(s) /\ Len(s) \in Nat /\ (s = <<>> <=> Len(s) = 0)
           /\ s # <<>> => Len(s) \in DOMAIN s
  OBVIOUS

\* The Set that goes on is the same one.
GoesOn ==
    /\ set # None /\ set' # None /\ set'.id = set.id /\ set'.room = set.room
    /\ minted'.sets = minted.sets

\* The bot told its room the Queue as it now is, or had nothing to tell.
Speaks(w) ==
    /\ w \in Seq(Requests) /\ toServer' = toServer \o w
    /\ \A j \in DOMAIN w : w[j] = PublishedQueue(set.room, playback')
    /\ w = <<>> => Current' = Current

LEMMA SpeakingKeeps ==
    ASSUME TypeOK, SocketInv, GoesOn, NEW w, Speaks(w)
    PROVE  /\ \A i : JoinAt(i)' <=> JoinAt(i)
           /\ \A i : JoinAt(i)' => toServer'[i].room = set'.room
           /\ \A i : JoinAt(i)' => \A j \in DOMAIN toServer' : j > i => Word(j)'
           /\ (\A i : ~JoinAt(i)') => \A i \in DOMAIN toServer' : Word(i)'
           /\ w # <<>> => /\ toServer' # <<>> /\ Word(Len(toServer))'
                          /\ toServer'[Len(toServer')].queue = Current'
           /\ w = <<>> => toServer' = toServer
           /\ \A i \in DOMAIN toServer' : toServer'[i].kind = "join" => toServer'[i].set <= minted'.sets
<1>1. toServer \in Seq(Requests) /\ w \in Seq(Requests) /\ toServer' = toServer \o w
  BY DEF TypeOK, Speaks
<1>2. \A j \in DOMAIN w : /\ w[j].kind = "publish" /\ w[j].room = set.room /\ w[j].queue = Current'
  BY DEF Speaks, PublishedQueue, Current
<1>3. /\ \A i \in DOMAIN toServer : i \in DOMAIN toServer' /\ toServer'[i] = toServer[i]
      /\ \A i \in DOMAIN toServer' :
                 i \in DOMAIN toServer \/ (i - Len(toServer) \in DOMAIN w /\ toServer'[i] = w[i - Len(toServer)])
  BY <1>1, Grown
<1>4. JoinFits /\ NumbersFit
  BY DEF SocketInv, GoesOn
<1>5. \A i : JoinAt(i)' <=> JoinAt(i)
  BY <1>2, <1>3 DEF JoinAt, GoesOn
<1>6. \A j \in DOMAIN toServer' : j \notin DOMAIN toServer => Word(j)'
  BY <1>2, <1>3 DEF Word, GoesOn
<1>7. \A j \in DOMAIN toServer : Word(j) => Word(j)'
  BY <1>3 DEF Word, GoesOn
<1>8. ASSUME NEW i, JoinAt(i)', NEW j \in DOMAIN toServer', j > i PROVE Word(j)'
  BY <1>4, <1>5, <1>6, <1>7, <1>8 DEF JoinFits, JoinAt
<1>9. ASSUME \A i : ~JoinAt(i)', NEW i \in DOMAIN toServer' PROVE Word(i)'
  BY <1>4, <1>5, <1>6, <1>7, <1>9 DEF JoinFits
<1>10. ASSUME w # <<>>
       PROVE  /\ toServer' # <<>> /\ Word(Len(toServer))' /\ toServer'[Len(toServer')].queue = Current'
  BY <1>1, <1>10, Grown, Lengths, <1>2 DEF GoesOn, Word
<1>11. w = <<>> => toServer' = toServer
  BY <1>1
<1>12. \A i \in DOMAIN toServer' : toServer'[i].kind = "join" => toServer'[i].set <= minted'.sets
  BY <1>2, <1>3, <1>4 DEF NumbersFit, GoesOn
<1>13. \A i : JoinAt(i)' => toServer'[i].room = set'.room
  BY <1>3, <1>4, <1>5 DEF JoinFits, JoinAt, GoesOn
<1>14. QED
  BY <1>13, <1>5, <1>8, <1>9, <1>10, <1>11, <1>12

\* A step of the bot alone.
LEMMA BotAlone ==
    ASSUME BotInv, SocketInv, GoesOn, set'.joined = set.joined, set'.roster = set.roster,
           step' = "joining" <=> step = "joining",
           (\E i \in DOMAIN chain : chain[i].kind = "evicted") => \E i \in DOMAIN chain' : chain'[i].kind = "evicted",
           UNCHANGED <<toBot, botRoom, location, panel>>, NEW w, Speaks(w)
    PROVE  SocketInv'
<1>1. TypeOK /\ NumbersFit /\ JoinFits /\ WordFits /\ AdmittedFits
  BY DEF BotInv, SocketInv, GoesOn
<1>2. /\ \A i : JoinAt(i)' <=> JoinAt(i)
      /\ \A i : JoinAt(i)' => toServer'[i].room = set'.room
      /\ \A i : JoinAt(i)' => \A j \in DOMAIN toServer' : j > i => Word(j)'
      /\ (\A i : ~JoinAt(i)') => \A i \in DOMAIN toServer' : Word(i)'
      /\ w # <<>> => /\ toServer' # <<>> /\ Word(Len(toServer))'
                     /\ toServer'[Len(toServer')].queue = Current'
      /\ w = <<>> => toServer' = toServer
      /\ \A i \in DOMAIN toServer' : toServer'[i].kind = "join" => toServer'[i].set <= minted'.sets
  BY <1>1, SpeakingKeeps
<1>3. w = <<>> => Current' = Current
  BY DEF Speaks
<1>4. NumbersFit'
  BY <1>1, <1>2 DEF NumbersFit, GoesOn
<1>5. /\ \A k : AckAt(k)' <=> AckAt(k)
      /\ \A k : ShownAt(k)' <=> ShownAt(k)
      /\ Truth' = Truth
  BY DEF AckAt, ShownAt, Truth, GoesOn, ListenersIn
<1>6. Admitted' <=> Admitted
  BY <1>5 DEF Admitted
<1>7. JoinFits'
  BY <1>1, <1>2, <1>5 DEF JoinFits, JoinAt
<1>8. WordFits'
  BY <1>2, <1>1, Lengths, <1>3 DEF Word, GoesOn, TypeOK, WordFits, JoinAt
<1>9. AdmittedFits'
  BY <1>1, <1>6 DEF Evicted, GoesOn, AdmittedFits
<1>10. ASSUME Admitted', botRoom' = set'.room PROVE RosterArrives' /\ WordArrives'
  BY <1>6, <1>10, <1>5, <1>2, <1>3 DEF SocketInv, GoesOn, RosterArrives, WordArrives
<1>11. QED
  BY <1>4, <1>7, <1>8, <1>9, <1>10 DEF SocketInv

LEMMA AdvanceSpeaks ==
    ASSUME BotInv, GoesOn, NEW r, Plain(playback, r), Advance(set, r, <<>>)
    PROVE  \E w : Speaks(w)
<1> DEFINE w == IF "publish" \in r.effects THEN <<PublishedQueue(set.room, playback')>> ELSE <<>>
<1>1. /\ playback' = r.state /\ r.state \in PlaybackState
      /\ toServer' = toServer \o <<>> \o (IF "publish" \in r.effects THEN <<PublishedQueue(set.room, r.state)>> ELSE <<>>)
  BY DEF Advance, Plain
<1>2. toServer \in Seq(Requests) /\ set.room \in Rooms
  BY BotInvFacts, SetFields DEF BotInv, TypeOK, GoesOn
<1>3. PublishedQueue(set.room, playback') \in Requests
  BY <1>1, StateFields, <1>2 DEF Queues, Requests, PublishedQueue
<1>4. w \in Seq(Requests) /\ toServer' = toServer \o w
  BY <1>1, <1>2, <1>3
<1>5. \A j \in DOMAIN w : w[j] = PublishedQueue(set.room, playback')
  OBVIOUS
<1>6. w = <<>> => Current' = Current
  BY <1>1 DEF Current, Plain
<1> HIDE DEF w
<1>7. Speaks(w)
  BY <1>4, <1>5, <1>6 DEF Speaks
<1>8. QED
  BY <1>7

LEMMA NothingSaid ==
    ASSUME TypeOK, toServer' = toServer, playback' = playback
    PROVE  Speaks(<<>>)
  BY DEF TypeOK, Speaks, Current

\* What takes its turn is gone from the chain; no eviction is, while its Set goes on.
LEMMA EvictionsStay ==
    ASSUME TypeOK,
           \/ chain' = chain
           \/ \E t \in Tasks : chain' = Append(chain, t)
           \/ chain # <<>> /\ Task.kind # "evicted" /\ chain' = Tail(chain)
    PROVE  (\E i \in DOMAIN chain : chain[i].kind = "evicted") => \E i \in DOMAIN chain' : chain'[i].kind = "evicted"
<1> SUFFICES ASSUME NEW i \in DOMAIN chain, chain[i].kind = "evicted"
             PROVE  \E j \in DOMAIN chain' : chain'[j].kind = "evicted"
  OBVIOUS
<1>1. chain \in Seq(Tasks)
  BY DEF TypeOK
<1>2. CASE \E t \in Tasks : chain' = Append(chain, t)
  BY <1>2, <1>1, Appended
<1>3. CASE chain # <<>> /\ Task.kind # "evicted" /\ chain' = Tail(chain)
  BY <1>1, <1>3, HeadAndTail DEF Task
<1>4. QED
  BY <1>2, <1>3

\* Nobody's number is from the future.
LEMMA NumbersGrow ==
    ASSUME TypeOK, NumbersFit, minted'.sets \in Nat, minted.sets <= minted'.sets,
           \/ toServer' = toServer
           \/ toServer # <<>> /\ toServer' = Tail(toServer)
           \/ \E w \in Seq(Requests) : /\ toServer' = toServer \o w
                                       /\ \A j \in DOMAIN w : w[j].kind = "join" => w[j].set <= minted'.sets,
           \/ toBot' = toBot
           \/ toBot # <<>> /\ toBot' = Tail(toBot)
           \/ \E a \in Seq(Messages) : /\ toBot' = toBot \o a
                                       /\ \A j \in DOMAIN a : a[j].kind = "joinAck" => a[j].set <= minted.sets
    PROVE  NumbersFit'
<1>1. minted.sets \in Nat /\ toServer \in Seq(Requests) /\ toBot \in Seq(Messages)
  BY DEF TypeOK
<1>2. ASSUME NEW n \in Nat, n <= minted.sets PROVE n <= minted'.sets
  BY <1>1, <1>2
<1>3. ASSUME NEW i \in DOMAIN toServer, toServer[i].kind = "join" PROVE toServer[i].set <= minted'.sets
  BY <1>1, <1>2, <1>3, RequestFields DEF NumbersFit
<1>4. ASSUME NEW i \in DOMAIN toServer', toServer'[i].kind = "join" PROVE toServer'[i].set <= minted'.sets
  <2>1. CASE toServer' = toServer
    BY <1>3, <1>4, <2>1
  <2>2. CASE toServer # <<>> /\ toServer' = Tail(toServer)
    BY <1>1, <2>2, HeadAndTail, <1>3, <1>4
  <2>3. CASE \E w \in Seq(Requests) : /\ toServer' = toServer \o w
                                      /\ \A j \in DOMAIN w : w[j].kind = "join" => w[j].set <= minted'.sets
    <3>1. PICK w \in Seq(Requests) : /\ toServer' = toServer \o w
                                     /\ \A j \in DOMAIN w : w[j].kind = "join" => w[j].set <= minted'.sets
      BY <2>3
    <3>2. i \in DOMAIN toServer \/ (i - Len(toServer) \in DOMAIN w /\ toServer'[i] = w[i - Len(toServer)])
      BY <1>1, <3>1, Grown
    <3>3. i \in DOMAIN toServer => toServer'[i] = toServer[i]
      BY <1>1, <3>1, Grown
    <3>4. QED
      BY <1>3, <1>4, <3>1, <3>2, <3>3
  <2>4. QED
    BY <2>1, <2>2, <2>3
<1>5. ASSUME NEW i \in DOMAIN toBot, toBot[i].kind = "joinAck" PROVE toBot[i].set <= minted'.sets
  <2>1. toBot[i] \in Messages
    BY <1>1
  <2>2. QED
    BY <1>2, <1>5, <2>1, MessageFields DEF NumbersFit
<1>6. ASSUME NEW i \in DOMAIN toBot', toBot'[i].kind = "joinAck" PROVE toBot'[i].set <= minted'.sets
  <2>1. CASE toBot' = toBot
    BY <1>5, <1>6, <2>1
  <2>2. CASE toBot # <<>> /\ toBot' = Tail(toBot)
    BY <1>1, <2>2, HeadAndTail, <1>5, <1>6
  <2>3. CASE \E a \in Seq(Messages) : /\ toBot' = toBot \o a
                                      /\ \A j \in DOMAIN a : a[j].kind = "joinAck" => a[j].set <= minted.sets
    <3>1. PICK a \in Seq(Messages) : /\ toBot' = toBot \o a
                                     /\ \A j \in DOMAIN a : a[j].kind = "joinAck" => a[j].set <= minted.sets
      BY <2>3
    <3>2. i \in DOMAIN toBot \/ (i - Len(toBot) \in DOMAIN a /\ toBot'[i] = a[i - Len(toBot)])
      BY <1>1, <3>1, Grown
    <3>3. i \in DOMAIN toBot => toBot'[i] = toBot[i]
      BY <1>1, <3>1, Grown
    <3>4. CASE i \in DOMAIN toBot
      BY <1>5, <1>6, <3>3, <3>4
    <3>5. CASE i - Len(toBot) \in DOMAIN a /\ toBot'[i] = a[i - Len(toBot)]
      BY <1>6, <3>5, <3>1, MessageFields, <1>2
    <3>6. QED
      BY <3>2, <3>4, <3>5
  <2>4. QED
    BY <2>1, <2>2, <2>3
<1>7. QED
  BY <1>4, <1>6 DEF NumbersFit

\* A request that is served, and a timer, a fetch or the player, keep the second layer.
LEMMA ServingKeepsSocket ==
    ASSUME BotInv, SocketInv, set # None, set' # None,
           AddBegins \/ AddUnresolved \/ AddResolved \/ AddEnds \/ ApplyAtOnce \/ ApplyNothing
             \/ PlayerFinishes \/ FetchFails \/ GraceFires
    PROVE  SocketInv'
<1>1. TypeOK /\ set \in Sets /\ ChainFits /\ SetFits
  BY BotInvFacts DEF BotInv
<1>2. CASE AddBegins \/ AddUnresolved
  BY <1>2, <1>1, EvictionsStay, NothingSaid, BotAlone DEF AddBegins, AddUnresolved, Served, Done, serverVars, GoesOn
<1>3. CASE AddResolved
  BY <1>3, <1>1, NothingSaid, BotAlone DEF AddResolved, EndSet, serverVars, GoesOn
<1>4. CASE AddEnds
  <2> DEFINE r == Added(playback, minted.entries + 1)
  <2>1. /\ Advance(set, r, <<>>) /\ minted'.sets = minted.sets /\ minted.entries \in Nat
        /\ step = "adding" /\ step' = "ready" /\ chain' = Tail(chain) /\ chain # <<>> /\ Task.kind = "add"
        /\ UNCHANGED <<toBot, botRoom, location, panel>>
    BY <1>1, <1>4 DEF AddEnds, Done, ChainFits, TypeOK, serverVars
  <2>2. Plain(playback, r) /\ (Keeps(playback, r) \/ Starts(playback, r))
    BY <2>1, BotInvFacts, AddedResult
  <2> HIDE DEF r
  <2>3. SameSet(set, set')
    BY <1>1, <2>1, <2>2, BotInvFacts, DrivenFits DEF SetFits, Advance, Plain
  <2>4. GoesOn
    BY <2>1, <2>3 DEF GoesOn, SameSet
  <2>5. PICK w : Speaks(w)
    BY <2>1, <2>2, <2>4, AdvanceSpeaks
  <2>6. (\E i \in DOMAIN chain : chain[i].kind = "evicted") => \E i \in DOMAIN chain' : chain'[i].kind = "evicted"
    BY <1>1, <2>1, EvictionsStay
  <2>7. QED
    BY <2>1, <2>3, <2>4, <2>5, <2>6, BotAlone DEF SameSet
<1>5. CASE ApplyAtOnce
  <2>1. /\ chain # <<>> /\ step = "ready" /\ step' = "ready" /\ chain' = Tail(chain) /\ Task.kind # "evicted"
        /\ minted' = minted /\ UNCHANGED <<toBot, botRoom, location, panel>>
        /\ Task.kind \in {"play", "stop", "skip", "remove", "ended", "failed"}
        /\ \/ About(Task) /\ Advance(set, Result, <<>>)
           \/ UNCHANGED <<set, playback, toServer>>
    BY <1>5 DEF ApplyAtOnce, Done, serverVars
  <2>2. (\E i \in DOMAIN chain : chain[i].kind = "evicted") => \E i \in DOMAIN chain' : chain'[i].kind = "evicted"
    BY <1>1, <2>1, EvictionsStay
  <2>3. CASE UNCHANGED <<set, playback, toServer>>
    BY <1>1, <2>1, <2>3, NothingSaid, <2>2, BotAlone DEF GoesOn
  <2>4. CASE About(Task) /\ Advance(set, Result, <<>>)
    <3>1. Plain(playback, Result) /\ Fits(playback, Result, set.finished)
      BY <2>1, <2>4, ResultFits
    <3>2. SameSet(set, set')
      BY <1>1, <2>1, <2>4, <3>1, BotInvFacts, DrivenFits DEF SetFits, Advance, Plain, Fits
    <3>3. GoesOn
      BY <2>1, <3>2 DEF GoesOn, SameSet
    <3>4. PICK w : Speaks(w)
      BY <2>4, <3>1, <3>3, AdvanceSpeaks
    <3>5. QED
      BY <2>1, <2>2, <3>2, <3>3, <3>4, BotAlone DEF SameSet
  <2>5. QED
    BY <2>1, <2>3, <2>4
<1>6. CASE ApplyNothing
  BY <1>6, <1>1, EvictionsStay, NothingSaid, BotAlone DEF ApplyNothing, EndsTheSet, ForgetQueue, Done, serverVars,
     GoesOn
<1>7. CASE PlayerFinishes \/ FetchFails \/ GraceFires
  <2>1. /\ playback' = playback /\ minted' = minted /\ toServer' = toServer /\ step' = step
        /\ UNCHANGED <<toBot, botRoom, location, panel>>
        /\ set' = set \/ set' = [set EXCEPT !.sounding = FALSE, !.finished = TRUE]
    BY <1>7 DEF PlayerFinishes, FetchFails, GraceFires, serverVars
  <2>2. set'.id = set.id /\ set'.room = set.room /\ set'.joined = set.joined /\ set'.roster = set.roster
    BY <1>1, <2>1 DEF Sets
  <2>3. (\E i \in DOMAIN chain : chain[i].kind = "evicted") => \E i \in DOMAIN chain' : chain'[i].kind = "evicted"
    <3>1. chain' = chain \/ \E t : chain' = Append(chain, t)
      BY <1>7 DEF PlayerFinishes, FetchFails, GraceFires
    <3>2. chain' \in Seq(Tasks) /\ chain \in Seq(Tasks)
      BY <1>7, PlayerFinishesKeeps, FetchFailsKeeps, GraceFiresKeeps, <1>1 DEF BotInv, TypeOK
    <3>3. ASSUME NEW t, chain' = Append(chain, t), NEW i \in DOMAIN chain
          PROVE  i \in DOMAIN chain' /\ chain'[i] = chain[i]
      BY <3>2, <3>3
    <3>4. QED
      BY <3>1, <3>3
  <2>4. Speaks(<<>>) /\ GoesOn
    BY <1>1, <2>1, <2>2, NothingSaid DEF GoesOn
  <2>5. QED
    BY <2>1, <2>2, <2>3, <2>4, BotAlone
<1>8. QED
  BY <1>2, <1>3, <1>4, <1>5, <1>6, <1>7

\* Messages come in, none of them the answer to the Set's own join.
Comes(a) ==
    /\ a \in Seq(Messages) /\ toBot' = toBot \o a
    /\ \A j \in DOMAIN a : a[j].kind = "joinAck" => a[j].set # set.id

Shows(m) == m.kind = "snapshot" /\ m.room = set.room

LEMMA Coming ==
    ASSUME TypeOK, set' = set, NEW a, Comes(a)
    PROVE  /\ \A k \in DOMAIN toBot : k \in DOMAIN toBot' /\ toBot'[k] = toBot[k] /\ k <= Len(toBot)
           /\ \A k \in DOMAIN toBot' : \/ k \in DOMAIN toBot
                                       \/ /\ k > Len(toBot) /\ k - Len(toBot) \in DOMAIN a
                                          /\ toBot'[k] = a[k - Len(toBot)]
           /\ \A j \in DOMAIN a : Len(toBot) + j \in DOMAIN toBot' /\ toBot'[Len(toBot) + j] = a[j]
           /\ \A k : AckAt(k)' <=> AckAt(k)
           /\ \A k : ShownAt(k) => ShownAt(k)' /\ toBot'[k] = toBot[k]
           /\ Admitted' <=> Admitted
           /\ chain' = chain => (Evicted => Evicted')
<1>1. toBot \in Seq(Messages) /\ a \in Seq(Messages) /\ toBot' = toBot \o a
  BY DEF TypeOK, Comes
<1>2. /\ \A k \in DOMAIN toBot : k \in DOMAIN toBot' /\ toBot'[k] = toBot[k] /\ k <= Len(toBot)
      /\ \A k \in DOMAIN toBot' : \/ k \in DOMAIN toBot
                                  \/ /\ k > Len(toBot) /\ k - Len(toBot) \in DOMAIN a
                                     /\ toBot'[k] = a[k - Len(toBot)]
      /\ \A j \in DOMAIN a : Len(toBot) + j \in DOMAIN toBot' /\ toBot'[Len(toBot) + j] = a[j]
  BY <1>1, Grown
<1>3. \A k : AckAt(k)' <=> AckAt(k)
  BY <1>2 DEF AckAt, Comes
<1>4. \A k : ShownAt(k) => ShownAt(k)' /\ toBot'[k] = toBot[k]
  BY <1>2 DEF ShownAt
<1>5. Admitted' <=> Admitted
  BY <1>2, <1>3 DEF Admitted, AckAt
<1>6. chain' = chain => (Evicted => Evicted')
  BY <1>2 DEF Evicted
<1>7. QED
  BY <1>2, <1>3, <1>4, <1>5, <1>6

LEMMA OthersAct ==
    ASSUME BotInv, SocketInv, NumbersFit', set # None, UNCHANGED <<botVars, toServer, panel>>, NEW a, Comes(a),
           botRoom' = botRoom \/ (botRoom' = None /\ (Admitted => Evicted')),
           botRoom' = set.room =>
              \/ Truth' = Truth /\ \A j \in DOMAIN a : ~Shows(a[j])
              \/ \E j \in DOMAIN a : /\ Shows(a[j]) /\ a[j].roster = Truth'
                                     /\ \A l \in DOMAIN a : l > j => ~Shows(a[l]),
           botRoom' = set.room =>
              \/ Truth' # Truth
              \/ \A u \in Watchers : location'[u] = set.room => location[u] = set.room
    PROVE  SocketInv'
<1>1. TypeOK /\ NumbersFit /\ JoinFits /\ WordFits /\ AdmittedFits
  BY DEF BotInv, SocketInv
<1>2. /\ \A k \in DOMAIN toBot : k \in DOMAIN toBot' /\ toBot'[k] = toBot[k] /\ k <= Len(toBot)
      /\ \A k \in DOMAIN toBot' : \/ k \in DOMAIN toBot
                                  \/ /\ k > Len(toBot) /\ k - Len(toBot) \in DOMAIN a
                                     /\ toBot'[k] = a[k - Len(toBot)]
      /\ \A j \in DOMAIN a : Len(toBot) + j \in DOMAIN toBot' /\ toBot'[Len(toBot) + j] = a[j]
      /\ \A k : AckAt(k)' <=> AckAt(k)
      /\ \A k : ShownAt(k) => ShownAt(k)' /\ toBot'[k] = toBot[k]
      /\ Admitted' <=> Admitted
      /\ Evicted => Evicted'
  BY <1>1, Coming DEF botVars
<1>3. JoinFits' /\ WordFits'
  BY <1>1, <1>2 DEF JoinAt, Word, botVars, Current, JoinFits, AckAt, WordFits
<1>4. AdmittedFits'
  BY <1>1, <1>2 DEF AdmittedFits, botVars
<1>5. ASSUME Admitted', botRoom' = set'.room PROVE RosterArrives' /\ WordArrives'
  <2>1. set' = set /\ set.room # None /\ playback' = playback /\ Len(toBot) \in Nat
    BY <1>1, BotInvFacts, SetFields, NoneAssumption DEF botVars, TypeOK
  <2>2. RosterArrives /\ WordArrives
    BY <1>2, <1>5, <2>1 DEF SocketInv
  <2>3. \A k : ShownAt(k)' <=> k \in DOMAIN toBot' /\ Shows(toBot'[k])
    BY <2>1 DEF ShownAt, Shows
  <2>4. RosterArrives'
    <3>1. CASE Truth' = Truth /\ \A j \in DOMAIN a : ~Shows(a[j])
      BY <1>2, <2>1, <3>1, <2>2 DEF ShownAt, Shows, RosterArrives
    <3>2. CASE \E j \in DOMAIN a : /\ Shows(a[j]) /\ a[j].roster = Truth'
                                   /\ \A l \in DOMAIN a : l > j => ~Shows(a[l])
      <4>1. PICK j \in DOMAIN a : /\ Shows(a[j]) /\ a[j].roster = Truth'
                                  /\ \A l \in DOMAIN a : l > j => ~Shows(a[l])
        BY <3>2
      <4>2. DOMAIN a \subseteq Nat /\ DOMAIN toBot \subseteq Nat /\ DOMAIN toBot' \subseteq Nat
        BY <1>1 DEF Comes, TypeOK
      <4>3. PICK p \in DOMAIN toBot' : p = Len(toBot) + j /\ toBot'[p] = a[j]
        BY <1>2
      <4>4. ShownAt(p)' /\ toBot'[p].roster = Truth'
        BY <2>3, <4>1, <4>3
      <4>5. ASSUME NEW l \in DOMAIN toBot', l > p PROVE ~ShownAt(l)'
        BY <2>1, <4>2, <4>3, <4>5, <1>2, <2>3, <4>1
      <4>6. QED
        BY <4>4, <4>5 DEF RosterArrives
    <3>3. QED
      BY <1>5, <2>1, <3>1, <3>2
  <2>5. WordArrives'
    <3>1. CASE toServer # <<>>
      BY <3>1 DEF WordArrives
    <3>2. CASE \E k \in DOMAIN toBot : ShownAt(k) /\ toBot[k].roster # set.roster
      BY <1>2, <2>1, <3>2 DEF WordArrives
    <3>3. CASE /\ \A u \in Watchers : location[u] = set.room => panel[u][set.room] = Current
               /\ \A u \in Watchers : location'[u] = set.room => location[u] = set.room
      BY <2>1, <3>3 DEF WordArrives, Current
    <3>4. CASE Truth' # Truth
      BY <1>5, <2>1, <3>4, <1>2, <2>3, <2>2, <3>2 DEF WordArrives, RosterArrives
    <3>5. QED
      BY <1>5, <2>1, <2>2, <3>1, <3>2, <3>3, <3>4 DEF WordArrives
  <2>6. QED
    BY <2>4, <2>5
<1>6. QED
  BY <1>3, <1>4, <1>5 DEF SocketInv

LEMMA One ==
    ASSUME NEW E, NEW s \in Seq(E), NEW e \in E
    PROVE  Append(s, e) = s \o <<e>> /\ <<e>> \in Seq(E) /\ \A j \in DOMAIN <<e>> : <<e>>[j] = e
OBVIOUS

LEMMA Regrouped ==
    ASSUME NEW E, NEW s \in Seq(E), NEW a \in Seq(E), NEW b \in Seq(E)
    PROVE  s \o a \o b = s \o (a \o b) /\ s \o a \in Seq(E) /\ a \o b \in Seq(E)
  OBVIOUS

LEMMA NothingMore ==
    ASSUME NEW E, NEW s \in Seq(E)
    PROVE  s \o <<>> = s /\ <<>> \in Seq(E) /\ DOMAIN <<>> = {}
  OBVIOUS

LEMMA PublishedTyped ==
    ASSUME NEW r \in Rooms, NEW st \in PlaybackState
    PROVE  /\ PublishedQueue(r, st) \in Requests /\ PublishedQueue(r, st).kind = "publish"
           /\ PublishedQueue(r, st).room = r
           /\ PublishedQueue(r, st).queue = [entries |-> st.entries, playing |-> st.playing]
BY StateFields DEF Queues, Requests, PublishedQueue

\* What a step of the Queue sends: what was said first, and the Queue.
LEMMA AdvanceSends ==
    ASSUME BotInv, set # None, NEW s, s.room = set.room, NEW first \in Seq(Requests),
           \A j \in DOMAIN first : first[j].kind = "publish",
           NEW r, r.state \in PlaybackState, Advance(s, r, first)
    PROVE  \E w \in Seq(Requests) : toServer' = toServer \o w /\ \A j \in DOMAIN w : w[j].kind = "publish"
<1>1. set.room \in Rooms /\ toServer \in Seq(Requests)
  BY BotInvFacts, SetFields DEF BotInv, TypeOK
<1>2. PublishedQueue(set.room, r.state) \in Requests /\ PublishedQueue(set.room, r.state).kind = "publish"
  BY <1>1, PublishedTyped
<1> DEFINE v == IF "publish" \in r.effects THEN <<PublishedQueue(set.room, r.state)>> ELSE <<>>
<1>3. v \in Seq(Requests) /\ \A j \in DOMAIN v : v[j].kind = "publish"
  BY <1>2
<1>4. toServer' = toServer \o first \o v
  BY DEF Advance
<1> HIDE DEF v
<1>5. toServer' = toServer \o (first \o v) /\ first \o v \in Seq(Requests)
  BY <1>1, <1>3, <1>4
<1>6. \A j \in DOMAIN (first \o v) : (first \o v)[j].kind = "publish"
  BY <1>3, Grown
<1>7. QED
  BY <1>5, <1>6

LEMMA EndSetSends ==
    ASSUME BotInv, EndSet
    PROVE  \E w \in Seq(Requests) : toServer' = toServer \o w /\ \A j \in DOMAIN w : w[j].kind = "publish"
<1>1. set.room \in Rooms /\ toServer \in Seq(Requests)
  BY BotInvFacts, SetFields DEF BotInv, TypeOK, EndSet
<1>2. EmptyPlayback \in PlaybackState
  BY EndSetKeeps
<1>3. PublishedQueue(set.room, EmptyPlayback) \in Requests /\ PublishedQueue(set.room, EmptyPlayback).kind = "publish"
  BY <1>1, <1>2, PublishedTyped
<1> DEFINE v == IF "publish" \in Cleared(playback).effects
                THEN <<PublishedQueue(set.room, EmptyPlayback)>> ELSE <<>>
<1>4. toServer' = toServer \o v
  BY DEF EndSet, Cleared
<1>5. v \in Seq(Requests) /\ \A j \in DOMAIN v : v[j].kind = "publish"
  BY <1>3
<1> HIDE DEF v
<1>6. QED
  BY <1>4, <1>5

\* No step sends a number from the future.
LEMMA NumbersNext == ASSUME BotInv, NumbersFit, Next PROVE NumbersFit'
<1>1. /\ TypeOK /\ minted.sets \in Nat /\ minted.sets <= minted.sets /\ minted.sets <= minted.sets + 1
      /\ toServer \in Seq(Requests) /\ toBot \in Seq(Messages)
  BY DEF BotInv, TypeOK
<1>2. CASE UNCHANGED <<minted, toServer, toBot>>
  BY <1>1, <1>2, NumbersGrow
<1>3. CASE /\ \E w \in Seq(Requests) : toServer' = toServer \o w /\ \A j \in DOMAIN w : w[j].kind # "join"
           /\ toBot' = toBot \/ (toBot # <<>> /\ toBot' = Tail(toBot))
           /\ minted'.sets = minted.sets
  BY <1>3, <1>1, NumbersGrow
<1>4. CASE AddBegins \/ AddUnresolved \/ ApplyNothing \/ PlayerFinishes \/ FetchFails \/ GraceFires
  BY <1>2, <1>4 DEF AddBegins, AddUnresolved, ApplyNothing, ForgetQueue, PlayerFinishes, FetchFails, GraceFires
<1>5. CASE AddResolved \/ JoinTimesOut \/ Recover \/ ApplyEnding
  BY <1>3, EndSetSends, <1>2, <1>5 DEF EndSet, AddResolved, JoinTimesOut, Recover, ApplyEnding
<1>6. CASE Begin
  <2>1. chain # <<>> /\ Task.kind = "add"
    BY <1>6 DEF BotInv, ChainFits, Begin
  <2>2. Task.room \in Rooms
    BY <1>1, <2>1, TaskFields, TaskKinds
  <2> DEFINE m == [kind |-> "join", set |-> minted.sets + 1, room |-> Task.room]
  <2>3. m \in Requests /\ m.set = minted.sets + 1
    BY <1>1, <2>2 DEF Requests
  <2>4. toServer' = Append(toServer, m) /\ minted'.sets = minted.sets + 1 /\ toBot' = toBot
    BY <1>1, <1>6 DEF Begin, TypeOK
  <2> HIDE DEF m
  <2>5. toServer' = toServer \o <<m>> /\ <<m>> \in Seq(Requests)
    BY <1>1, <2>3, <2>4
  <2>6. \A j \in DOMAIN <<m>> : <<m>>[j].kind = "join" => <<m>>[j].set <= minted'.sets
    BY <1>1, <2>3, <2>4
  <2>7. minted'.sets \in Nat /\ minted.sets <= minted'.sets
    BY <1>1, <2>4
  <2>8. QED
    BY <1>1, <2>4, <2>5, <2>6, <2>7, NumbersGrow
<1>7. CASE Closed
  <2>1. minted'.sets = minted.sets /\ toBot' = toBot
    BY <1>7 DEF Closed
  <2>2. CASE closing = None
    BY <1>2, <1>7, <2>2 DEF Closed
  <2>3. CASE closing # None
    <3> DEFINE m == [kind |-> "leave", room |-> closing]
    <3>1. m \in Requests /\ m.kind # "join"
      BY <1>1, <2>3 DEF TypeOK, Requests
    <3>2. toServer' = Append(toServer, m)
      BY <1>7, <2>3 DEF Closed
    <3> HIDE DEF m
    <3>3. /\ toServer' = toServer \o <<m>> /\ <<m>> \in Seq(Requests)
          /\ \A j \in DOMAIN <<m>> : <<m>>[j] = m
      BY <1>1, <3>1, <3>2, One
    <3>4. \A j \in DOMAIN <<m>> : <<m>>[j].kind # "join"
      BY <3>1, <3>3
    <3> DEFINE w == <<m>>
    <3>5. w \in Seq(Requests) /\ toServer' = toServer \o w /\ \A j \in DOMAIN w : w[j].kind # "join"
      BY <3>3, <3>4
    <3> HIDE DEF w
    <3>6. QED
      BY <1>3, <2>1, <3>5
  <2>4. QED
    BY <2>2, <2>3
<1>8. CASE AddEnds
  <2> DEFINE r == Added(playback, minted.entries + 1)
  <2>1. Advance(set, r, <<>>) /\ set # None /\ minted'.sets = minted.sets /\ toBot' = toBot /\ minted.entries \in Nat
    BY <1>1, <1>8 DEF AddEnds, BotInv, ChainFits, TypeOK
  <2>2. r.state \in PlaybackState
    BY <2>1, BotInvFacts, AddedResult DEF Plain
  <2> HIDE DEF r
  <2>3. <<>> \in Seq(Requests) /\ \A j \in DOMAIN <<>> : <<>>[j].kind = "publish"
    OBVIOUS
  <2>4. \E w \in Seq(Requests) : toServer' = toServer \o w /\ \A j \in DOMAIN w : w[j].kind = "publish"
    BY <2>1, <2>2, <2>3, AdvanceSends
  <2>5. QED
    BY <1>3, <2>1, <2>4
<1>9. CASE ApplyAtOnce
  <2>1. minted' = minted /\ toBot' = toBot /\ chain # <<>>
        /\ Task.kind \in {"play", "stop", "skip", "remove", "ended", "failed"}
    BY <1>9 DEF ApplyAtOnce
  <2>2. CASE toServer' = toServer
    BY <1>2, <2>1, <2>2
  <2>3. CASE About(Task) /\ Advance(set, Result, <<>>)
    <3>1. set # None /\ Result.state \in PlaybackState
      BY <2>1, <2>3, ResultFits DEF Plain
    <3>2. <<>> \in Seq(Requests) /\ \A j \in DOMAIN <<>> : <<>>[j].kind = "publish"
      OBVIOUS
    <3>3. \E w \in Seq(Requests) : toServer' = toServer \o w /\ \A j \in DOMAIN w : w[j].kind = "publish"
      BY <2>3, <3>1, <3>2, AdvanceSends
    <3>4. QED
      BY <1>3, <2>1, <3>3
  <2>4. QED
    BY <1>9, <2>2, <2>3 DEF ApplyAtOnce
<1>10. CASE BotReceives
  <2>1. minted'.sets = minted.sets /\ toBot # <<>> /\ toBot' = Tail(toBot)
    BY <1>10 DEF BotReceives
  <2>2. CASE toServer' = toServer
    <3>1. <<>> \in Seq(Requests) /\ toServer' = toServer \o <<>> /\ \A j \in DOMAIN <<>> : <<>>[j].kind # "join"
      BY <1>1, <2>2
    <3>2. QED
      BY <1>3, <2>1, <3>1
  <2>3. CASE toServer' # toServer
    <3>1. PICK m \in Messages : m = Head(toBot) /\ m.kind = "snapshot"
      BY <1>1, <1>10, <2>1, <2>3, FirstMessage DEF BotReceives, Enqueue, ForceLeave, JoinAck
    <3>2. Snapshot(m)
      BY <1>10, <3>1 DEF BotReceives
    <3> DEFINE told == [Heard(m) EXCEPT !.roster = m.roster]
               result == IF m.roster \subseteq {Bot} THEN RoomEmptied(playback) ELSE ListenerReturned(playback)
    <3>3. SetIn(m.room) /\ ~set.ended /\ Advance(told, result, Welcome)
      BY <2>3, <3>2 DEF Snapshot, Heard, Moderated
    <3>4. told.room = set.room
      BY <3>3, HeardFields DEF BotInv, SetIn, Sets
    <3>5. result.state \in PlaybackState
      BY BotInvFacts, RosterResult
    <3>6. Welcome \in Seq(Requests) /\ \A j \in DOMAIN Welcome : Welcome[j].kind = "publish"
      <4>1. set \in Sets
        BY <3>3, BotInvFacts DEF SetIn
      <4>2. /\ PublishedQueue(set.room, playback) \in Requests
            /\ PublishedQueue(set.room, playback).kind = "publish"
        BY <4>1, BotInvFacts, SetFields, PublishedTyped
      <4>3. QED
        BY <4>2 DEF Welcome
    <3> HIDE DEF told, result
    <3>7. \E w \in Seq(Requests) : toServer' = toServer \o w /\ \A j \in DOMAIN w : w[j].kind = "publish"
      BY <3>3, <3>4, <3>5, <3>6, AdvanceSends DEF SetIn
    <3>8. QED
      BY <1>3, <2>1, <3>7
  <2>4. QED
    BY <2>2, <2>3
<1>11. CASE ServerReceives
  <2>1. toServer # <<>> /\ toServer' = Tail(toServer) /\ minted' = minted
    BY <1>11 DEF ServerReceives, botVars
  <2>2. PICK m \in Requests : m = Head(toServer)
    BY <1>1, <2>1, FirstRequest
  <2>3. m.kind = "join" => m.set \in Nat /\ m.set <= minted.sets
    BY <1>1, <2>1, <2>2, RequestFields DEF NumbersFit
  <2>4. \E a \in Seq(Messages) : toBot' = toBot \o a /\ \A j \in DOMAIN a : a[j].kind = "joinAck" => a[j].set <= minted.sets
    <3>1. CASE m.kind = "join" /\ JoinsServer(m)
      <4> DEFINE p == SnapshotIfAny(IF botRoom = m.room THEN None ELSE botRoom, location, m.room, muted)
                 q == <<[kind |-> "joinAck", set |-> m.set, ok |-> TRUE]>>
                 s == SnapshotOf(m.room, location, m.room, muted)
      <4>1. toBot' = toBot \o p \o q \o s
        BY <3>1 DEF JoinsServer
      <4>2. p \in Seq(Messages) /\ \A j \in DOMAIN p : p[j].kind # "joinAck"
        <5>1. p \in Seq(Messages)
          BY <1>1, RequestFields, SnapshotTyped DEF TypeOK
        <5>2. QED
          BY <5>1 DEF SnapshotIfAny, SnapshotOf
      <4>3. q \in Seq(Messages) /\ \A j \in DOMAIN q : q[j].set <= minted.sets
        <5>1. [kind |-> "joinAck", set |-> m.set, ok |-> TRUE] \in Messages
          BY <2>3, <3>1 DEF Messages
        <5>2. QED
          BY <2>3, <3>1, <5>1
      <4>4. s \in Seq(Messages) /\ \A j \in DOMAIN s : s[j].kind # "joinAck"
        <5>1. s \in Seq(Messages)
          BY RequestFields, SnapshotTyped
        <5>2. QED
          BY <5>1 DEF SnapshotOf
      <4> HIDE DEF p, q, s
      <4>5. p \o q \in Seq(Messages) /\ \A j \in DOMAIN (p \o q) : (p \o q)[j].kind = "joinAck" => (p \o q)[j].set <= minted.sets
        BY <4>2, <4>3, Grown
      <4> DEFINE pq == p \o q
      <4>6. pq \in Seq(Messages) /\ \A j \in DOMAIN pq : pq[j].kind = "joinAck" => pq[j].set <= minted.sets
        BY <4>5
      <4>7. toBot' = toBot \o pq \o s
        <5>1. toBot \in Seq(Messages) /\ p \in Seq(Messages) /\ q \in Seq(Messages)
          BY <1>1, <4>2, <4>3
        <5>2. toBot \o p \o q = toBot \o (p \o q)
          BY <5>1, Regrouped
        <5>3. QED
          BY <4>1, <5>2, Zenon
      <4> HIDE DEF pq
      <4>8. pq \o s \in Seq(Messages)
            /\ \A j \in DOMAIN (pq \o s) : (pq \o s)[j].kind = "joinAck" => (pq \o s)[j].set <= minted.sets
        BY <4>4, <4>6, Grown
      <4>9. toBot' = toBot \o (pq \o s)
        <5>1. toBot \in Seq(Messages) /\ pq \in Seq(Messages) /\ s \in Seq(Messages)
          BY <1>1, <4>4, <4>6
        <5>2. toBot \o pq \o s = toBot \o (pq \o s)
          BY <5>1, Regrouped
        <5>3. QED
          BY <4>7, <5>2, Zenon
      <4>10. QED
        BY <4>8, <4>9
    <3>2. CASE m.kind = "join" /\ JoinRefused(m)
      <4> DEFINE q == [kind |-> "joinAck", set |-> m.set, ok |-> FALSE]
      <4>1. q \in Messages /\ q.set <= minted.sets
        BY <2>3, <3>2 DEF Messages
      <4>2. toBot' = Append(toBot, q)
        BY <3>2 DEF JoinRefused
      <4> HIDE DEF q
      <4>3. /\ toBot' = toBot \o <<q>> /\ <<q>> \in Seq(Messages)
            /\ \A j \in DOMAIN <<q>> : <<q>>[j] = q
        BY <1>1, <4>1, <4>2, One
      <4> DEFINE w == <<q>>
      <4>4. w \in Seq(Messages) /\ toBot' = toBot \o w /\ \A j \in DOMAIN w : w[j].set <= minted.sets
        BY <4>1, <4>3
      <4> HIDE DEF w
      <4>5. QED
        BY <4>4
    <3>3. CASE m.kind = "leave" /\ LeavesServer(m)
      <4> DEFINE s == SnapshotOf(m.room, location, None, muted)
      <4>1. s \in Seq(Messages) /\ \A j \in DOMAIN s : s[j].kind # "joinAck"
        <5>1. s \in Seq(Messages)
          BY RequestFields, SnapshotTyped
        <5>2. QED
          BY <5>1 DEF SnapshotOf
      <4> DEFINE n == IF botRoom = m.room THEN s ELSE <<>>
      <4>2. toBot' = toBot \o n
        BY <1>1, <3>3, NothingMore DEF LeavesServer
      <4>3. n \in Seq(Messages) /\ \A j \in DOMAIN n : n[j].kind # "joinAck"
        <5> HIDE DEF s
        <5>1. QED
          BY <4>1, NothingMore
      <4> HIDE DEF n
      <4>4. QED
        BY <4>2, <4>3
    <3>4. CASE m.kind = "publish" /\ Publishes(m)
      <4> DEFINE n == <<>>
      <4>1. toBot' = toBot \o n /\ n \in Seq(Messages) /\ DOMAIN n = {}
        BY <1>1, <3>4, NothingMore DEF Publishes
      <4> HIDE DEF n
      <4>2. QED
        BY <4>1
    <3>5. QED
      BY <1>11, <2>2, <3>1, <3>2, <3>3, <3>4 DEF ServerReceives
  <2>5. QED
    BY <1>1, <2>1, <2>4, NumbersGrow
<1>12. CASE Command \/ OwnerNext
  <2>1. minted' = minted /\ toServer' = toServer
    BY <1>12 DEF Command, Ask, OwnerNext, Evict, Moderate, Move, botVars
  <2>2. toBot' \in Seq(Messages)
    BY <1>12, CommandKeeps, OwnerKeeps DEF BotInv, TypeOK
  <2>3. ASSUME NEW k \in DOMAIN toBot', toBot'[k].kind = "joinAck" PROVE k \in DOMAIN toBot /\ toBot'[k] = toBot[k]
    <3>1. CASE Command
      <4>1. PICK t : toBot' = Append(toBot, [kind |-> "command", task |-> t])
        BY <3>1 DEF Command, Ask
      <4>2. toBot' = toBot \o <<[kind |-> "command", task |-> t]>>
        BY <1>1, <4>1
      <4>3. QED
        BY <1>1, <2>2, <2>3, <4>1
    <3>2. CASE OwnerNext
      <4>1. PICK a, b : /\ toBot' = toBot \o a \o b /\ a \in Seq(Messages) /\ b \in Seq(Messages)
                        /\ \A j \in DOMAIN a : a[j].kind # "joinAck"
                        /\ \A j \in DOMAIN b : b[j].kind # "joinAck"
        <5>1. CASE Evict
          <6>1. PICK told \in {SnapshotOf(botRoom, location, None, muted), <<>>} :
                    toBot' = toBot \o told \o <<[kind |-> "forceLeave", room |-> botRoom]>>
            BY <5>1 DEF Evict
          <6>2. botRoom \in Rooms
            BY <1>1, <5>1 DEF Evict, TypeOK
          <6>3. told \in Seq(Messages) /\ \A j \in DOMAIN told : told[j].kind # "joinAck"
            <7>1. CASE told = <<>>
              BY <7>1, NothingMore
            <7>2. CASE told = SnapshotOf(botRoom, location, None, muted)
              <8>1. told \in Seq(Messages)
                BY <1>1, <6>2, <7>2, SnapshotTyped
              <8>2. QED
                BY <7>2, <8>1 DEF SnapshotOf
            <7>3. QED
              BY <7>1, <7>2
          <6> DEFINE f == [kind |-> "forceLeave", room |-> botRoom]
          <6>4. f \in Messages /\ f.kind = "forceLeave"
            BY <6>2 DEF Messages
          <6> DEFINE g == <<f>>
          <6>5. toBot' = toBot \o told \o g
            BY <6>1
          <6> HIDE DEF f
          <6>6. g \in Seq(Messages) /\ \A j \in DOMAIN g : g[j] = f
            BY <1>1, <6>4, One
          <6>7. \A j \in DOMAIN g : g[j].kind # "joinAck"
            BY <6>4, <6>6
          <6> HIDE DEF g
          <6>8. QED
            BY <6>3, <6>5, <6>6, <6>7
        <5>2. CASE Moderate
          <6> DEFINE s == SnapshotIfAny(botRoom, location, botRoom, ~muted)
          <6>1. toBot' = toBot \o s
            BY <5>2 DEF Moderate
          <6>2. s \in Seq(Messages)
            BY <1>1, SnapshotTyped DEF TypeOK
          <6>3. \A j \in DOMAIN s : s[j].kind # "joinAck"
            BY DEF SnapshotIfAny, SnapshotOf
          <6> HIDE DEF s
          <6> DEFINE n == <<>>
          <6>4. toBot' = toBot \o s \o n /\ n \in Seq(Messages) /\ DOMAIN n = {}
            BY <1>1, <6>2, Regrouped, <6>1, NothingMore
          <6> HIDE DEF n
          <6>5. QED
            BY <6>2, <6>3, <6>4
        <5>3. CASE \E u \in Listeners, r \in Rooms \cup {None} : Move(u, r)
          <6>1. PICK u \in Listeners, r \in Rooms \cup {None} : Move(u, r)
            BY <5>3
          <6> DEFINE w == [location EXCEPT ![u] = r]
                     p == SnapshotIfAny(location[u], w, botRoom, muted)
                     q == SnapshotIfAny(r, w, botRoom, muted)
          <6>2. toBot' = toBot \o p \o q
            BY <6>1 DEF Move
          <6> HIDE DEF w
          <6>3. p \in Seq(Messages) /\ q \in Seq(Messages)
            BY <1>1, SnapshotTyped DEF TypeOK
          <6>4. (\A j \in DOMAIN p : p[j].kind # "joinAck") /\ (\A j \in DOMAIN q : q[j].kind # "joinAck")
            BY DEF SnapshotIfAny, SnapshotOf
          <6> HIDE DEF p, q
          <6>5. QED
            BY <6>2, <6>3, <6>4
        <5>4. QED
          BY <3>2, <5>1, <5>2, <5>3 DEF OwnerNext
      <4> DEFINE ta == toBot \o a
      <4>2. ta \in Seq(Messages) /\ toBot' = ta \o b
        BY <1>1, <4>1
      <4>3. k \in DOMAIN ta /\ toBot'[k] = ta[k]
        <5> HIDE DEF ta
        <5>1. k \in DOMAIN ta \/ (k - Len(ta) \in DOMAIN b /\ toBot'[k] = b[k - Len(ta)])
          BY <4>1, <4>2, Grown
        <5>2. k \in DOMAIN ta => toBot'[k] = ta[k]
          BY <4>1, <4>2, Grown
        <5>3. QED
          BY <2>3, <4>1, <5>1, <5>2
      <4>4. k \in DOMAIN toBot \/ (k - Len(toBot) \in DOMAIN a /\ ta[k] = a[k - Len(toBot)])
        BY <1>1, <4>1, <4>3, Grown
      <4>5. k \in DOMAIN toBot => ta[k] = toBot[k]
        BY <1>1, <4>1, Grown
      <4> HIDE DEF ta
      <4>6. QED
        BY <2>3, <4>1, <4>3, <4>4, <4>5
    <3>3. QED
      BY <1>12, <3>1, <3>2
  <2>4. QED
    BY <2>1, <2>3 DEF NumbersFit
<1>13. QED
  BY <1>4, <1>5, <1>6, <1>7, <1>8, <1>9, <1>10, <1>11, <1>12 DEF Next, ChainNext

\* What a snapshot says.
TheBot(bot, r) == {b \in {Bot} : bot = r}

\* One snapshot of the room, which names whoever is in it; none of no room.
Says(p, r, where, bot) ==
    /\ p \in Seq(Messages)
    /\ \A j \in DOMAIN p : /\ p[j].kind = "snapshot" /\ p[j].room = r
                           /\ p[j].roster = ListenersIn(where, r) \cup TheBot(bot, r)
    /\ r = None => p = <<>>
    /\ r # None => DOMAIN p = {1} /\ Len(p) = 1

LEMMA SnapshotSays ==
    ASSUME NEW r \in Rooms \cup {None}, NEW where, NEW bot, NEW isMuted
    PROVE  Says(SnapshotIfAny(r, where, bot, isMuted), r, where, bot)
<1> DEFINE p == SnapshotIfAny(r, where, bot, isMuted)
<1>1. p \in Seq(Messages)
  BY SnapshotTyped
<1>2. CASE r = None
  BY <1>1, <1>2 DEF SnapshotIfAny, Says
<1>3. CASE r # None
  <2> DEFINE q == ListenersIn(where, r) \cup TheBot(bot, r)
             c == bot = r /\ ~isMuted
             m == [kind |-> "snapshot", room |-> r, roster |-> q, mic |-> c]
  <2>1. p = <<m>>
    BY <1>3 DEF SnapshotIfAny, SnapshotOf, TheBot
  <2> HIDE DEF q, c
  <2>2. m.kind = "snapshot" /\ m.room = r /\ m.roster = q
    OBVIOUS
  <2> HIDE DEF m
  <2>3. DOMAIN p = {1} /\ Len(p) = 1 /\ \A j \in DOMAIN p : p[j] = m
    BY <2>1
  <2> USE DEF q
  <2> HIDE DEF p
  <2>4. /\ \A j \in DOMAIN p : /\ p[j].kind = "snapshot" /\ p[j].room = r
                                /\ p[j].roster = ListenersIn(where, r) \cup TheBot(bot, r)
    BY <2>2, <2>3
  <2>5. Says(p, r, where, bot)
    BY <1>1, <1>3, <2>3, <2>4 DEF Says
  <2>6. QED
    BY <2>5 DEF p
<1>4. QED
  BY <1>2, <1>3

\* Members who move, and the owner, tell the bot what it has to know.
LEMMA PeopleKeepSocket ==
    ASSUME BotInv, SocketInv, set # None, NumbersFit', Command \/ OwnerNext
    PROVE  SocketInv'
<1>1. /\ TypeOK /\ set.room \in Rooms /\ set.room # None /\ toBot \in Seq(Messages) /\ AdmittedFits
      /\ botRoom \in Rooms \cup {None}
  BY BotInvFacts, SetFields, NoneAssumption DEF BotInv, TypeOK, SocketInv
<1>2. CASE Command
  <2>1. BotInv'
    BY <1>2, CommandKeeps
  <2>2. PICK t : /\ toBot' = Append(toBot, [kind |-> "command", task |-> t])
                 /\ UNCHANGED <<botVars, serverVars, toServer>>
    BY <1>2 DEF Command, Ask
  <2> DEFINE a == <<[kind |-> "command", task |-> t]>>
  <2>3. toBot' = toBot \o a
    BY <1>1, <2>2
  <2>4. a \in Seq(Messages)
    BY <1>1, <2>1, <2>2 DEF BotInv, TypeOK
  <2>5. \A j \in DOMAIN a : a[j].kind = "command"
    OBVIOUS
  <2> HIDE DEF a
  <2>6. Comes(a) /\ \A j \in DOMAIN a : ~Shows(a[j])
    BY <2>3, <2>4, <2>5 DEF Comes, Shows
  <2>7. botRoom' = botRoom /\ location' = location /\ Truth' = Truth /\ UNCHANGED <<botVars, toServer, panel>>
    BY <2>2 DEF Truth, serverVars, botVars, ListenersIn
  <2>8. QED
    BY <2>6, <2>7, OthersAct
<1>3. CASE Moderate
  <2> DEFINE a == SnapshotIfAny(botRoom, location, botRoom, ~muted)
  <2>1. /\ toBot' = toBot \o a /\ UNCHANGED <<botVars, botRoom, location, panel, toServer>>
    BY <1>3 DEF Moderate
  <2>2. /\ a \in Seq(Messages)
        /\ \A j \in DOMAIN a : /\ a[j].kind = "snapshot" /\ a[j].room = botRoom
                               /\ a[j].roster = ListenersIn(location, botRoom) \cup TheBot(botRoom, botRoom)
        /\ botRoom # None => DOMAIN a = {1} /\ Len(a) = 1
    <3>1. Says(a, botRoom, location, botRoom)
      BY <1>1, SnapshotSays
    <3> HIDE DEF a
    <3>2. QED
      BY <3>1 DEF Says
  <2> HIDE DEF a
  <2>3. Comes(a)
    BY <2>1, <2>2 DEF Comes
  <2>4. Truth' = Truth
    BY <2>1 DEF Truth, botVars, ListenersIn
  <2>5. ASSUME botRoom' = set.room
        PROVE  \E j \in DOMAIN a : /\ Shows(a[j]) /\ a[j].roster = Truth'
                                   /\ \A l \in DOMAIN a : l > j => ~Shows(a[l])
    BY <1>1, <2>1, <2>2, <2>4, <2>5 DEF Shows, Truth, TheBot
  <2>6. QED
    BY <2>1, <2>3, <2>5, OthersAct
<1>4. CASE Evict
  <2>1. PICK told \in {SnapshotOf(botRoom, location, None, muted), <<>>} :
            toBot' = toBot \o told \o <<[kind |-> "forceLeave", room |-> botRoom]>>
    BY <1>4 DEF Evict
  <2>2. botRoom \in Rooms /\ botRoom # None /\ botRoom' = None /\ UNCHANGED <<botVars, panel, toServer>>
    BY <1>1, <1>4, NoneAssumption DEF Evict
  <2>3. told \in Seq(Messages) /\ \A j \in DOMAIN told : told[j].kind = "snapshot"
    <3>1. CASE told = <<>>
      BY <3>1
    <3>2. CASE told = SnapshotOf(botRoom, location, None, muted)
      BY <2>2, <3>2, SnapshotSays DEF SnapshotIfAny, Says
    <3>3. QED
      BY <3>1, <3>2
  <2> DEFINE f == [kind |-> "forceLeave", room |-> botRoom]
             g == <<f>>
             a == told \o g
  <2>4. f \in Messages /\ f.kind = "forceLeave" /\ f.room = botRoom
    BY <2>2 DEF Messages
  <2>5. toBot' = toBot \o told \o g
    BY <2>1
  <2> HIDE DEF f
  <2>6. g \in Seq(Messages) /\ 1 \in DOMAIN g /\ \A j \in DOMAIN g : g[j] = f
    BY <1>1, <2>4
  <2> HIDE DEF g
  <2>7. a \in Seq(Messages) /\ toBot' = toBot \o a
    <3>1. toBot \in Seq(Messages) /\ told \in Seq(Messages) /\ g \in Seq(Messages)
      BY <1>1, <2>3, <2>6
    <3>2. toBot \o told \o g = toBot \o (told \o g) /\ told \o g \in Seq(Messages)
      BY <3>1, Regrouped
    <3>3. QED
      BY <2>5, <3>2, Zenon
  <2>8. /\ \A j \in DOMAIN a : a[j].kind # "joinAck"
        /\ \E j \in DOMAIN a : a[j] = f
    BY <2>3, <2>4, <2>6, Grown
  <2> HIDE DEF a
  <2>9. Comes(a)
    BY <2>7, <2>8 DEF Comes
  <2>10. Admitted => Evicted'
    <3>1. Admitted => botRoom = set.room
      BY <1>1, <2>2 DEF AdmittedFits
    <3>2. \E k \in DOMAIN toBot' : toBot'[k] = f
      BY <1>1, <2>7, <2>8, Grown
    <3>3. set' = set
      BY <2>2 DEF botVars
    <3>4. QED
      BY <2>4, <3>1, <3>2, <3>3 DEF Evicted
  <2>11. QED
    BY <1>1, <2>2, <2>9, <2>10, OthersAct
<1>5. CASE \E u \in Listeners, r \in Rooms \cup {None} : Move(u, r)
  <2>1. PICK u \in Listeners, r \in Rooms \cup {None} : Move(u, r)
    BY <1>5
  <2> DEFINE where == [location EXCEPT ![u] = r]
             p == SnapshotIfAny(location[u], where, botRoom, muted)
             q == SnapshotIfAny(r, where, botRoom, muted)
             a == p \o q
  <2>2. /\ location' = where /\ location[u] # r /\ toBot' = toBot \o p \o q
        /\ UNCHANGED <<botVars, botRoom, panel, toServer>>
    BY <2>1 DEF Move
  <2>3. /\ location[u] \in Rooms \cup {None} /\ location \in [Listeners -> Rooms \cup {None}]
        /\ \A x \in Listeners : location'[x] = IF x = u THEN r ELSE location[x]
    BY <1>1, <2>2 DEF TypeOK
  <2> HIDE DEF where
  <2>4. /\ p \in Seq(Messages)
        /\ \A j \in DOMAIN p : /\ p[j].kind = "snapshot" /\ p[j].room = location[u]
                               /\ p[j].roster = ListenersIn(where, location[u]) \cup TheBot(botRoom, location[u])
        /\ location[u] # None => DOMAIN p = {1} /\ Len(p) = 1
    <3>1. Says(p, location[u], where, botRoom)
      BY <2>3, SnapshotSays
    <3> HIDE DEF p
    <3>2. QED
      BY <3>1 DEF Says
  <2>5. /\ q \in Seq(Messages)
        /\ \A j \in DOMAIN q : /\ q[j].kind = "snapshot" /\ q[j].room = r
                               /\ q[j].roster = ListenersIn(where, r) \cup TheBot(botRoom, r)
        /\ r # None => DOMAIN q = {1} /\ Len(q) = 1
    <3>1. Says(q, r, where, botRoom)
      BY <2>1, SnapshotSays
    <3> HIDE DEF q
    <3>2. QED
      BY <3>1 DEF Says
  <2> HIDE DEF p, q
  <2>6. a \in Seq(Messages) /\ toBot' = toBot \o a
    BY <1>1, <2>2, <2>4, <2>5, Regrouped
  <2>7. /\ \A j \in DOMAIN p : j \in DOMAIN a /\ a[j] = p[j] /\ j <= Len(p)
        /\ \A j \in DOMAIN q : Len(p) + j \in DOMAIN a /\ a[Len(p) + j] = q[j]
        /\ \A l \in DOMAIN a : l \in DOMAIN p \/ (l - Len(p) \in DOMAIN q /\ a[l] = q[l - Len(p)] /\ l > Len(p))
        /\ Len(p) \in Nat /\ DOMAIN a \subseteq Nat
    BY <2>4, <2>5, <2>6, Grown
  <2> HIDE DEF a
  <2>8. Comes(a)
    BY <2>4, <2>5, <2>6, <2>7 DEF Comes
  <2>9. Truth' = ListenersIn(where, set.room) \cup {Bot}
    BY <2>2 DEF Truth, botVars
  <2>10. CASE location[u] = set.room /\ botRoom = set.room
    <3>1. 1 \in DOMAIN a /\ Shows(a[1]) /\ a[1].roster = Truth'
      BY <1>1, <2>4, <2>7, <2>9, <2>10 DEF Shows, TheBot
    <3>2. ASSUME NEW l \in DOMAIN a, l > 1 PROVE ~Shows(a[l])
      BY <1>1, <2>4, <2>10, <3>2, <2>5, <2>7, <2>2 DEF Shows
    <3>3. \A x \in Watchers : location'[x] = set.room => location[x] = set.room
      BY <2>2, <2>3, <2>10, ResponderAssumption
    <3>4. QED
      BY <2>2, <2>8, <3>1, <3>2, <3>3, OthersAct
  <2>11. CASE r = set.room /\ botRoom = set.room
    <3>1. PICK j \in DOMAIN a : j = Len(p) + 1 /\ a[j] = q[1] /\ 1 \in DOMAIN q
      BY <1>1, <2>5, <2>7, <2>11
    <3>2. Shows(a[j]) /\ a[j].roster = Truth'
      BY <1>1, <2>5, <2>9, <2>11, <3>1 DEF Shows, TheBot
    <3>3. ASSUME NEW l \in DOMAIN a, l > j PROVE ~Shows(a[l])
      BY <2>7, <3>1, <3>3, <1>1, <2>5, <2>11
    <3>4. Truth' # Truth
      BY <2>2, <2>3, <2>9, <2>11, ResponderAssumption DEF Truth, ListenersIn
    <3>5. QED
      BY <2>2, <2>8, <3>2, <3>3, <3>4, OthersAct
  <2>12. CASE botRoom # set.room
    BY <2>2, <2>8, <2>12, OthersAct
  <2>13. CASE location[u] # set.room /\ r # set.room
    <3>1. \A x \in Listeners : location'[x] = set.room <=> location[x] = set.room
      BY <2>3, <2>13
    <3>2. Truth' = Truth
      BY <3>1, <2>2 DEF Truth, ListenersIn, botVars
    <3>3. \A l \in DOMAIN a : ~Shows(a[l])
      BY <2>4, <2>5, <2>7, <2>13 DEF Shows
    <3>4. \A x \in Watchers : location'[x] = set.room => location[x] = set.room
      BY <3>1, ResponderAssumption
    <3>5. QED
      BY <2>2, <2>8, <3>2, <3>3, <3>4, OthersAct
  <2>14. QED
    BY <2>10, <2>11, <2>12, <2>13
<1>6. QED
  BY <1>2, <1>3, <1>4, <1>5 DEF OwnerNext

\* The bot takes the first message off the socket.
LEMMA ReadingKeeps ==
    ASSUME BotInv, SocketInv, NumbersFit', GoesOn, NEW w, Speaks(w), toBot # <<>>, toBot' = Tail(toBot),
           UNCHANGED <<botRoom, location, panel>>, Evicted => Evicted',
           \/ ~AckAt(1) /\ set'.joined = set.joined /\ step' = step
           \/ AckAt(1) /\ step' # "joining" /\ (set'.joined <=> toBot[1].ok),
           \/ set'.roster = set.roster /\ (ShownAt(1) => toBot[1].roster = set.roster \/ ~Admitted')
           \/ ShownAt(1) /\ set'.roster = toBot[1].roster /\ w # <<>>
    PROVE  SocketInv' /\ (Admitted => Admitted')
<1>1. TypeOK /\ NumbersFit /\ JoinFits /\ WordFits /\ AdmittedFits /\ toBot \in Seq(Messages)
  BY DEF BotInv, SocketInv, GoesOn, TypeOK
<1>2. /\ \A i : JoinAt(i)' <=> JoinAt(i)
      /\ \A i : JoinAt(i)' => toServer'[i].room = set'.room
      /\ \A i : JoinAt(i)' => \A j \in DOMAIN toServer' : j > i => Word(j)'
      /\ (\A i : ~JoinAt(i)') => \A i \in DOMAIN toServer' : Word(i)'
      /\ w # <<>> => /\ toServer' # <<>> /\ Word(Len(toServer))'
                     /\ toServer'[Len(toServer')].queue = Current'
      /\ w = <<>> => toServer' = toServer
      /\ \A i \in DOMAIN toServer' : toServer'[i].kind = "join" => toServer'[i].set <= minted'.sets
  BY <1>1, SpeakingKeeps
<1>3. /\ set'.id = set.id /\ set'.room = set.room /\ Truth' = Truth /\ (w = <<>> => Current' = Current)
  BY DEF GoesOn, Truth, ListenersIn, Speaks
<1>4. /\ \A k \in DOMAIN toBot' : k \in Nat /\ k >= 1 /\ k + 1 \in DOMAIN toBot /\ toBot'[k] = toBot[k + 1]
      /\ \A k \in DOMAIN toBot : k \in Nat /\ (k = 1 \/ (k - 1 \in DOMAIN toBot' /\ toBot'[k - 1] = toBot[k]))
      /\ 1 \in DOMAIN toBot
  BY <1>1, HeadAndTail
<1>5. /\ \A k \in DOMAIN toBot' : AckAt(k)' <=> AckAt(k + 1)
      /\ \A k \in DOMAIN toBot' : ShownAt(k)' <=> ShownAt(k + 1)
      /\ \A k : AckAt(k)' => k \in DOMAIN toBot'
      /\ \A k : ShownAt(k)' => k \in DOMAIN toBot'
  BY <1>3, <1>4 DEF AckAt, ShownAt
<1>6. AckAt(1) => \A k : ~AckAt(k)'
  BY <1>4, <1>5, <1>1 DEF JoinFits
<1>7. Admitted' => Admitted
  BY <1>4, <1>6, <1>5 DEF Admitted
<1>8. JoinFits'
  BY <1>1, <1>2, <1>4, <1>6, <1>5 DEF JoinFits, JoinAt
<1>9. WordFits'
  BY <1>2, <1>3, <1>1 DEF WordFits, Word, JoinAt
<1>10. AdmittedFits'
  BY <1>1, <1>3, <1>7 DEF AdmittedFits
<1>11. NumbersFit'
  OBVIOUS
<1>12. ASSUME Admitted', botRoom' = set'.room PROVE RosterArrives' /\ WordArrives'
  <2>1. RosterArrives /\ WordArrives
    BY <1>3, <1>7, <1>12 DEF SocketInv, GoesOn
  <2>2. CASE ShownAt(1) /\ set'.roster = toBot[1].roster /\ w # <<>>
    <3>1. RosterArrives'
      <4>1. PICK k \in DOMAIN toBot : /\ ShownAt(k) /\ toBot[k].roster = Truth
                                      /\ \A l \in DOMAIN toBot : l > k => ~ShownAt(l)
        BY <1>4, <2>1, <2>2 DEF RosterArrives
      <4>2. CASE k = 1
        BY <1>3, <1>4, <1>5, <2>2, <4>1, <4>2 DEF RosterArrives
      <4>3. CASE k # 1
        <5>1. PICK p \in DOMAIN toBot' : p = k - 1 /\ toBot'[p] = toBot[k] /\ p + 1 = k
          BY <1>4, <4>3
        <5>2. ShownAt(p)' /\ toBot'[p].roster = Truth'
          BY <1>3, <1>5, <4>1, <5>1
        <5>3. \A l \in DOMAIN toBot' : l > p => ~ShownAt(l)'
          BY <1>4, <1>5, <4>1, <5>1
        <5>4. QED
          BY <5>2, <5>3 DEF RosterArrives
      <4>4. QED
        BY <4>2, <4>3
    <3>2. QED
      BY <1>2, <2>2, <3>1 DEF WordArrives
  <2>3. CASE set'.roster = set.roster /\ (ShownAt(1) => toBot[1].roster = set.roster)
    <3>1. RosterArrives'
      <4>1. CASE set.roster = Truth /\ \A k \in DOMAIN toBot : ~ShownAt(k)
        BY <1>3, <1>4, <1>5, <2>3, <4>1 DEF RosterArrives
      <4>2. ASSUME NEW k \in DOMAIN toBot, ShownAt(k), toBot[k].roster = Truth,
                   \A l \in DOMAIN toBot : l > k => ~ShownAt(l)
            PROVE  RosterArrives'
        <5>1. CASE k = 1
          BY <1>3, <1>4, <1>5, <2>3, <4>2, <5>1 DEF RosterArrives
        <5>2. CASE k # 1
          <6>1. PICK p \in DOMAIN toBot' : p = k - 1 /\ toBot'[p] = toBot[k] /\ p + 1 = k
            BY <1>4, <5>2
          <6>2. ShownAt(p)' /\ toBot'[p].roster = Truth'
            BY <1>3, <1>5, <4>2, <6>1
          <6>3. \A l \in DOMAIN toBot' : l > p => ~ShownAt(l)'
            BY <1>4, <1>5, <4>2, <6>1
          <6>4. QED
            BY <6>2, <6>3 DEF RosterArrives
        <5>3. QED
          BY <5>1, <5>2
      <4>3. QED
        BY <2>1, <4>1, <4>2 DEF RosterArrives
    <3>2. WordArrives'
      <4>1. CASE toServer' # <<>>
        BY <4>1 DEF WordArrives
      <4>2. CASE toServer' = <<>>
        <5>1. w = <<>> /\ toServer = <<>>
          BY <1>2, <4>2
        <5>2. CASE \E k \in DOMAIN toBot : ShownAt(k) /\ toBot[k].roster # set.roster
          <6>1. PICK k \in DOMAIN toBot : ShownAt(k) /\ toBot[k].roster # set.roster
            BY <5>2
          <6>2. PICK p \in DOMAIN toBot' : p = k - 1 /\ toBot'[p] = toBot[k] /\ p + 1 = k
            BY <1>4, <2>3, <6>1
          <6>3. ShownAt(p)' /\ toBot'[p].roster # set'.roster
            BY <1>5, <2>3, <6>1, <6>2
          <6>4. QED
            BY <6>3 DEF WordArrives
        <5>3. CASE \A u \in Watchers : location[u] = set.room => panel[u][set.room] = Current
          BY <1>3, <5>1, <5>3 DEF WordArrives
        <5>4. QED
          BY <2>1, <5>1, <5>2, <5>3 DEF WordArrives
      <4>3. QED
        BY <4>1, <4>2
    <3>3. QED
      BY <3>1, <3>2
  <2>4. QED
    BY <1>12, <2>2, <2>3
<1>13. SocketInv'
  BY <1>8, <1>9, <1>10, <1>11, <1>12 DEF SocketInv
<1>14. Admitted => Admitted'
  <2>1. CASE AckAt(1)
    BY <1>1, <1>4, <2>1, SetFields, BotInvFacts DEF JoinFits, BotInv, SetFits, GoesOn, Admitted
  <2>2. CASE ~AckAt(1)
    <3>1. ASSUME NEW k \in DOMAIN toBot, AckAt(k), toBot[k].ok PROVE Admitted'
      <4>1. PICK p \in DOMAIN toBot' : p = k - 1 /\ toBot'[p] = toBot[k] /\ p + 1 = k
        BY <1>4, <2>2, <3>1
      <4>2. AckAt(p)' /\ toBot'[p].ok
        BY <1>5, <3>1, <4>1
      <4>3. QED
        BY <4>1, <4>2 DEF Admitted
    <3>2. QED
      BY <2>2, <3>1 DEF Admitted
  <2>3. QED
    BY <2>1, <2>2
<1>15. QED
  BY <1>13, <1>14

\* What the bot hears, it makes of the socket no more than it should.
LEMMA HearingKeepsSocket ==
    ASSUME BotInv, SocketInv, set # None, NumbersFit', BotReceives
    PROVE  SocketInv' /\ GoesOn /\ (Admitted => Admitted') /\ \E w : Speaks(w)
<1>1. /\ TypeOK /\ SetFits /\ set \in Sets /\ toBot \in Seq(Messages) /\ toBot # <<>> /\ toBot' = Tail(toBot)
      /\ UNCHANGED <<closing, minted, botRoom, location, panel>> /\ JoinFits /\ chain \in Seq(Tasks)
  BY BotInvFacts DEF BotInv, TypeOK, BotReceives, serverVars, SocketInv
<1>2. PICK m \in Messages : m = Head(toBot) /\ m = toBot[1] /\ 1 \in DOMAIN toBot
  BY <1>1, HeadAndTail
<1>3. /\ \A k \in DOMAIN toBot : k = 1 \/ (k - 1 \in DOMAIN toBot' /\ toBot'[k - 1] = toBot[k])
  BY <1>1, HeadAndTail
<1>4. set'.room = set.room /\ chain' = chain /\ m.kind # "forceLeave" => (Evicted => Evicted')
  BY <1>2, <1>3 DEF Evicted
<1>5. CASE m.kind = "command" /\ Enqueue(m.task)
  <2>1. chain' = Append(chain, m.task) /\ UNCHANGED <<step, set, playback, toServer>> /\ m.task \in Tasks
    BY <1>2, <1>5, MessageFields DEF Enqueue
  <2>2. Evicted => Evicted'
    BY <1>1, <2>1, EvictionsStay, <1>2, <1>3, <1>5 DEF Evicted
  <2>3. Speaks(<<>>) /\ GoesOn
    BY <1>1, <2>1, NothingSaid DEF GoesOn
  <2>4. ~AckAt(1) /\ ~ShownAt(1)
    BY <1>2, <1>5 DEF AckAt, ShownAt
  <2>5. QED
    BY <1>1, <2>1, <2>2, <2>3, <2>4, ReadingKeeps
<1>6. CASE m.kind = "forceLeave" /\ ForceLeave(m)
  <2>1. UNCHANGED <<step, set, playback, toServer>>
    BY <1>6 DEF ForceLeave
  <2>2. Evicted => Evicted'
    <3>1. CASE m.room = set.room
      <4> DEFINE t == [kind |-> "evicted", set |-> set.id]
      <4>1. t \in Tasks /\ t.kind = "evicted"
        BY <1>1, SetFields DEF Tasks
      <4>2. chain' = Append(chain, t)
        BY <1>1, <1>6, <3>1 DEF ForceLeave, SetIn
      <4> HIDE DEF t
      <4>3. Len(chain) + 1 \in DOMAIN chain' /\ chain'[Len(chain) + 1] = t
        BY <1>1, <4>1, <4>2, Appended
      <4>4. QED
        BY <4>1, <4>3 DEF Evicted
    <3>2. CASE m.room # set.room
      BY <1>6, <3>2, <1>2, <1>3, <2>1 DEF ForceLeave, SetIn, Evicted
    <3>3. QED
      BY <3>1, <3>2
  <2>3. Speaks(<<>>) /\ GoesOn
    BY <1>1, <2>1, NothingSaid DEF GoesOn
  <2>4. ~AckAt(1) /\ ~ShownAt(1)
    BY <1>2, <1>6 DEF AckAt, ShownAt
  <2>5. QED
    BY <1>1, <2>1, <2>2, <2>3, <2>4, ReadingKeeps
<1>7. CASE m.kind = "joinAck" /\ JoinAck(m)
  <2>1. chain' = chain /\ playback' = playback /\ toServer' = toServer
    BY <1>7 DEF JoinAck
  <2>2. ~ShownAt(1)
    BY <1>2, <1>7 DEF ShownAt
  <2>3. CASE step = "joining" /\ m.set = set.id
    BY <1>2, <1>7, <2>3, <1>1, SetFields, <2>1, NothingSaid, <1>4, <2>2, ReadingKeeps DEF AckAt, SetFits, JoinAck,
       SetIs, Sets, GoesOn
  <2>4. CASE ~(step = "joining" /\ m.set = set.id)
    BY <1>1, <1>7, <2>4, <1>2, <2>1, NothingSaid, <1>4, <2>2, ReadingKeeps DEF JoinAck, SetIs, AckAt, JoinFits,
       GoesOn
  <2>5. QED
    BY <2>3, <2>4
<1>8. CASE m.kind = "snapshot" /\ Snapshot(m)
  <2>1. chain' = chain /\ step' = step
    BY <1>8 DEF Snapshot
  <2>2. ~AckAt(1)
    BY <1>2, <1>8 DEF AckAt
  <2>3. CASE m.room # set.room \/ set.ended
    <3>1. set' = set /\ playback' = playback /\ toServer' = toServer
      BY <1>8, <2>3 DEF Snapshot, SetIn
    <3>2. ShownAt(1) => ~Admitted'
      BY <1>1, <1>2, <2>3, SetFields, HeadAndTail, <3>1 DEF ShownAt, SetFits, JoinFits, AckAt, Admitted
    <3>3. Speaks(<<>>) /\ GoesOn
      BY <1>1, <3>1, NothingSaid DEF GoesOn
    <3>4. Evicted => Evicted'
      BY <1>4, <1>8, <2>1, <3>1
    <3>5. QED
      BY <1>1, <2>1, <2>2, <3>1, <3>2, <3>3, <3>4, ReadingKeeps
  <2>4. CASE m.room = set.room /\ ~set.ended
    <3>1. /\ Heard(m) \in Sets /\ Heard(m).id = set.id /\ Heard(m).room = set.room /\ Heard(m).joined = set.joined
          /\ Heard(m).roster = set.roster /\ PlayerFits(Heard(m), playback)
      BY <1>1, <2>4, HeardFields
    <3>2. CASE m.roster = set.roster
      <4>1. set' = Heard(m) /\ playback' = playback /\ toServer' = toServer
        BY <1>8, <2>4, <3>2 DEF Snapshot, SetIn, Heard, Moderated
      <4>2. Speaks(<<>>) /\ GoesOn
        BY <1>1, <3>1, <4>1, NothingSaid, SetFields DEF GoesOn
      <4>3. Evicted => Evicted'
        BY <1>4, <1>8, <2>1, <3>1, <4>1
      <4>4. ShownAt(1) => toBot[1].roster = set.roster
        BY <1>2, <3>2
      <4>5. QED
        BY <1>1, <2>1, <2>2, <3>1, <4>1, <4>2, <4>3, <4>4, ReadingKeeps DEF GoesOn
    <3>3. CASE m.roster # set.roster
      <4> DEFINE told == [Heard(m) EXCEPT !.roster = m.roster]
                 r == IF m.roster \subseteq {Bot} THEN RoomEmptied(playback) ELSE ListenerReturned(playback)
      <4>1. Advance(told, r, Welcome)
        BY <1>8, <2>4, <3>3 DEF Snapshot, SetIn, Heard, Moderated
      <4>2. /\ told \in Sets /\ told.id = set.id /\ told.room = set.room /\ told.joined = set.joined
            /\ told.roster = m.roster /\ PlayerFits(told, playback)
        BY <1>8, <3>1, MessageFields DEF Sets, PlayerFits
      <4>3. /\ r.state \in PlaybackState /\ r.state.entries = playback.entries /\ r.state.playing = playback.playing
            /\ Keeps(playback, r) /\ "publish" \notin r.effects
        BY BotInvFacts, RosterResult
      <4> HIDE DEF told, r
      <4>4. playback' = r.state /\ set' = Driven(told, r.effects, r.state) /\ toServer' = toServer \o Welcome \o <<>>
        BY <4>1, <4>3 DEF Advance
      <4>5. set' \in Sets /\ SameSet(told, set')
        BY <4>2, <4>3, <4>4, BotInvFacts, DrivenFits
      <4>6. GoesOn /\ set'.joined = set.joined /\ set'.roster = m.roster
        BY <1>1, <4>2, <4>5, SetFields DEF GoesOn, SameSet
      <4>7. Speaks(Welcome) /\ Welcome # <<>>
        BY <1>1, BotInvFacts, SetFields, PublishedTyped, <4>3, <4>4 DEF PublishedQueue, Welcome, TypeOK, Speaks
      <4>8. Evicted => Evicted'
        BY <1>4, <1>8, <2>1, <4>6 DEF GoesOn
      <4>9. ShownAt(1)
        BY <1>2, <1>8, <2>4 DEF ShownAt
      <4>10. QED
        BY <1>1, <1>2, <2>1, <2>2, <4>6, <4>7, <4>8, <4>9, ReadingKeeps DEF GoesOn
    <3>4. QED
      BY <3>2, <3>3
  <2>5. QED
    BY <2>3, <2>4
<1>9. QED
  BY <1>2, <1>5, <1>6, <1>7, <1>8 DEF BotReceives

\* The server reads the first request and answers; the Set's own join is not what it reads.
LEMMA Answering ==
    ASSUME BotInv, SocketInv, set # None, UNCHANGED <<botVars, location>>, NumbersFit',
           toServer # <<>>, toServer' = Tail(toServer), ~JoinAt(1), NEW a, Comes(a),
           (\E i : JoinAt(i)) \/ (/\ toBot' = toBot /\ botRoom' = botRoom
                                  /\ toServer' = <<>> /\ botRoom = set.room =>
                                        \A u \in Watchers : location[u] = set.room => panel'[u][set.room] = Current)
    PROVE  SocketInv'
<1>1. /\ TypeOK /\ NumbersFit /\ JoinFits /\ WordFits /\ AdmittedFits /\ SetFits /\ set \in Sets
      /\ toServer \in Seq(Requests) /\ set' = set /\ step' = step /\ chain' = chain /\ playback' = playback
  BY BotInvFacts DEF BotInv, SocketInv, TypeOK, botVars
<1>2. /\ \A i \in DOMAIN toServer' : i \in Nat /\ i >= 1 /\ i + 1 \in DOMAIN toServer /\ toServer'[i] = toServer[i + 1]
      /\ \A i \in DOMAIN toServer : i \in Nat /\ (i = 1 \/ (i - 1 \in DOMAIN toServer' /\ toServer'[i - 1] = toServer[i]))
      /\ Len(toServer) \in Nat \ {0} /\ Len(toServer') = Len(toServer) - 1 /\ toServer' \in Seq(Requests)
  BY <1>1, HeadAndTail
<1>3. /\ \A i \in DOMAIN toServer' : (JoinAt(i)' <=> JoinAt(i + 1)) /\ (Word(i)' <=> Word(i + 1))
      /\ \A i : JoinAt(i)' => i \in DOMAIN toServer'
  BY <1>1, <1>2 DEF JoinAt, Word
<1>4. /\ \A k : AckAt(k)' <=> AckAt(k)
      /\ Admitted' <=> Admitted
      /\ Evicted => Evicted'
  BY <1>1, Coming
<1>5. ASSUME NEW i, JoinAt(i) PROVE i # 1 /\ i - 1 \in DOMAIN toServer' /\ JoinAt(i - 1)'
  BY <1>5, <1>2, <1>1 DEF JoinAt
<1>6. JoinFits'
  BY <1>2, <1>3, <1>1, <1>4, <1>5 DEF JoinFits, AckAt
<1>7. WordFits'
  BY <1>2, Lengths, <1>1, <1>3 DEF WordFits, Current, JoinAt, Word
<1>8. CASE \E i : JoinAt(i)
  BY <1>8, <1>1, SetFields, <1>4, <1>6, <1>7 DEF JoinFits, JoinAt, SetFits, Admitted, SocketInv, AdmittedFits
<1>9. CASE ~(\E i : JoinAt(i))
  BY <1>9, <1>1, <1>4, <1>6, <1>7 DEF AdmittedFits, SocketInv, ShownAt, Truth, ListenersIn, RosterArrives,
     WordArrives, Current
<1>10. QED
  BY <1>8, <1>9

\* After s and p come q and, last, e.
Ending(v, s, p, q, e, n) ==
    /\ n + 1 \in DOMAIN v /\ v[n + 1] = q /\ n + 2 \in DOMAIN v /\ v[n + 2] = e
    /\ \A k \in DOMAIN v : /\ k \in Nat /\ k <= n + 2
                           /\ \/ k \in DOMAIN s /\ v[k] = s[k]
                              \/ k \notin DOMAIN s /\ \E j \in DOMAIN p : v[k] = p[j]
                              \/ k = n + 1
                              \/ k = n + 2

LEMMA Endings ==
    ASSUME NEW E, NEW s \in Seq(E), NEW p \in Seq(E), NEW q \in E, NEW e \in E
    PROVE  \E n \in Nat : Ending(s \o p \o <<q>> \o <<e>>, s, p, q, e, n)
<1> DEFINE sp == s \o p
           spq == Append(sp, q)
           v == Append(spq, e)
<1>1. /\ sp \in Seq(E) /\ Len(sp) \in Nat
      /\ \A i \in DOMAIN s : i \in DOMAIN sp /\ sp[i] = s[i]
      /\ \A i \in DOMAIN sp : i \in DOMAIN s \/ (i \notin DOMAIN s /\ \E j \in DOMAIN p : sp[i] = p[j])
  BY Grown
<1>2. s \o p \o <<q>> \o <<e>> = v
  OBVIOUS
<1> HIDE DEF sp
<1>3. /\ spq \in Seq(E) /\ Len(spq) = Len(sp) + 1 /\ DOMAIN spq = DOMAIN sp \cup {Len(sp) + 1}
      /\ spq[Len(sp) + 1] = q /\ \A i \in DOMAIN sp : spq[i] = sp[i]
  BY <1>1, Appended
<1> HIDE DEF spq
<1>4. /\ v \in Seq(E) /\ Len(v) = Len(spq) + 1 /\ DOMAIN v = DOMAIN spq \cup {Len(spq) + 1}
      /\ v[Len(spq) + 1] = e /\ \A i \in DOMAIN spq : v[i] = spq[i]
  BY <1>3, Appended
<1> HIDE DEF v
<1>5. PICK n \in Nat : n = Len(sp) /\ Len(spq) = n + 1 /\ Len(spq) + 1 = n + 2
  BY <1>1, <1>3
<1>6. n + 1 \in DOMAIN v /\ v[n + 1] = q /\ n + 2 \in DOMAIN v /\ v[n + 2] = e
  BY <1>3, <1>4, <1>5
<1>7. ASSUME NEW k \in DOMAIN v
      PROVE  /\ k \in Nat /\ k <= n + 2
             /\ \/ k \in DOMAIN s /\ v[k] = s[k]
                \/ k \notin DOMAIN s /\ \E j \in DOMAIN p : v[k] = p[j]
                \/ k = n + 1
                \/ k = n + 2
  BY <1>4, <1>5, Lengths, <1>3, <1>1
<1>8. Ending(v, s, p, q, e, n)
  BY <1>6, <1>7 DEF Ending
<1>9. QED
  BY <1>2, <1>8

LEMMA Single ==
    ASSUME NEW E, NEW s \in Seq(E), Len(s) = 1
    PROVE  s = <<s[1]>> /\ s[1] \in E
BY SeqEqual

\* It reads the Set's own join.
LEMMA JoiningKeepsSocket ==
    ASSUME BotInv, SocketInv, set # None, UNCHANGED <<botVars, location>>, NumbersFit',
           toServer # <<>>, toServer' = Tail(toServer), JoinAt(1),
           JoinsServer(toServer[1]) \/ JoinRefused(toServer[1])
    PROVE  SocketInv'
<1>1. /\ TypeOK /\ NumbersFit /\ JoinFits /\ WordFits /\ AdmittedFits /\ SetFits /\ set \in Sets
      /\ toServer \in Seq(Requests) /\ toBot \in Seq(Messages)
      /\ set' = set /\ step' = step /\ chain' = chain /\ playback' = playback /\ location' = location
  BY BotInvFacts DEF BotInv, SocketInv, TypeOK, botVars
<1>2. /\ \A i \in DOMAIN toServer' : i \in Nat /\ i >= 1 /\ i + 1 \in DOMAIN toServer /\ toServer'[i] = toServer[i + 1]
      /\ Len(toServer) \in Nat \ {0} /\ Len(toServer') = Len(toServer) - 1 /\ toServer' \in Seq(Requests)
      /\ 1 \in DOMAIN toServer
  BY <1>1, HeadAndTail
<1>3. /\ step = "joining" /\ ~set.joined /\ toServer[1].room = set.room /\ toServer[1].set = set.id
      /\ toServer[1].kind = "join" /\ set.room \in Rooms /\ set.room # None
      /\ \A k \in DOMAIN toBot : ~AckAt(k)
      /\ \A j \in DOMAIN toServer : j > 1 => Word(j)
  BY <1>1, <1>2, SetFields, NoneAssumption DEF JoinFits, JoinAt, SetFits
<1>4. \A i \in DOMAIN toServer' : Word(i)' /\ ~JoinAt(i)'
  BY <1>2, <1>3, <1>1 DEF Word, JoinAt
<1>5. WordFits'
  <2>1. ASSUME toServer' # <<>>, NEW n, n = Len(toServer')
        PROVE  Word(n)' /\ toServer'[n].queue = Current'
    <3>1. n \in DOMAIN toServer' /\ n + 1 = Len(toServer) /\ toServer'[n] = toServer[n + 1] /\ n + 1 \in DOMAIN toServer
      BY <1>2, <2>1, Lengths
    <3>2. n + 1 > 1
      BY <1>2, <3>1
    <3>3. Word(n + 1)
      BY <1>3, <3>1, <3>2
    <3>4. Word(n + 1) /\ toServer[n + 1].queue = Current
      BY <1>1, <3>1, <3>3 DEF WordFits, JoinAt, Word
    <3>5. QED
      BY <1>1, <1>4, <3>1, <3>4 DEF Current
  <2>2. QED
    BY <2>1 DEF WordFits, Word
<1>6. CASE JoinRefused(toServer[1])
  <2> DEFINE q == [kind |-> "joinAck", set |-> toServer[1].set, ok |-> FALSE]
  <2>1. q \in Messages /\ q.ok = FALSE
    <3>1. toServer[1] \in Requests
      BY <1>1, <1>2
    <3>2. QED
      BY <1>3, <3>1, RequestFields DEF Messages
  <2>2. toBot' = Append(toBot, q)
    BY <1>6 DEF JoinRefused
  <2> HIDE DEF q
  <2>3. \A k \in DOMAIN toBot' : (k \in DOMAIN toBot /\ toBot'[k] = toBot[k]) \/ (k = Len(toBot) + 1 /\ toBot'[k] = q)
    BY <1>1, <2>1, <2>2, Appended
  <2>4. \A k : AckAt(k)' => k = Len(toBot) + 1 /\ toBot'[k] = q
    BY <1>1, <1>3, <2>3 DEF AckAt
  <2>5. ~Admitted'
    BY <1>1, <1>3, <2>1, <2>4 DEF Admitted
  <2>6. JoinFits'
    BY <1>1, <1>3, <1>4, <2>4 DEF JoinFits
  <2>7. QED
    BY <1>5, <2>5, <2>6 DEF SocketInv, AdmittedFits
<1>7. CASE JoinsServer(toServer[1])
  <2> DEFINE R == set.room
             p == SnapshotIfAny(IF botRoom = R THEN None ELSE botRoom, location, R, muted)
             q == [kind |-> "joinAck", set |-> set.id, ok |-> TRUE]
             s == SnapshotIfAny(R, location, R, muted)
  <2>1. botRoom' = R /\ toBot' = toBot \o p \o <<q>> \o s
    BY <1>3, <1>7 DEF JoinsServer, SnapshotIfAny
  <2>2. /\ p \in Seq(Messages) /\ \A j \in DOMAIN p : p[j].kind = "snapshot"
    <3>1. (IF botRoom = R THEN None ELSE botRoom) \in Rooms \cup {None}
      BY <1>1 DEF TypeOK
    <3>2. Says(p, IF botRoom = R THEN None ELSE botRoom, location, R)
      BY <3>1, SnapshotSays
    <3> HIDE DEF p
    <3>3. QED
      BY <3>2 DEF Says
  <2>3. q \in Messages /\ q.kind = "joinAck" /\ q.ok /\ q.set = set.id
    BY <1>1, SetFields DEF Messages
  <2>4. /\ s \in Seq(Messages) /\ DOMAIN s = {1} /\ Len(s) = 1
        /\ s[1].kind = "snapshot" /\ s[1].room = R /\ s[1].roster = Truth
    <3>1. Says(s, R, location, R)
      BY <1>3, SnapshotSays
    <3> HIDE DEF s
    <3>2. QED
      BY <1>3, <3>1 DEF Says, Truth, TheBot
  <2> HIDE DEF p, q, s
  <2>5. PICK n \in Nat :
             /\ n + 1 \in DOMAIN toBot' /\ toBot'[n + 1] = q /\ n + 2 \in DOMAIN toBot' /\ toBot'[n + 2] = s[1]
             /\ \A k \in DOMAIN toBot' : /\ k \in Nat /\ k <= n + 2
                                         /\ \/ k \in DOMAIN toBot /\ toBot'[k] = toBot[k]
                                            \/ k \notin DOMAIN toBot /\ \E j \in DOMAIN p : toBot'[k] = p[j]
                                            \/ k = n + 1
                                            \/ k = n + 2
    <3>1. s = <<s[1]>> /\ s[1] \in Messages
      BY <2>4, Single
    <3>2. \E n \in Nat : Ending(toBot \o p \o <<q>> \o <<s[1]>>, toBot, p, q, s[1], n)
      BY <1>1, <2>2, <2>3, <3>1, Endings
    <3>3. toBot' = toBot \o p \o <<q>> \o <<s[1]>>
      BY <2>1, <3>1
    <3>4. \E n \in Nat : Ending(toBot', toBot, p, q, s[1], n)
      BY <3>2, <3>3
    <3>5. QED
      BY <3>4 DEF Ending
  <2>6. \A k : AckAt(k)' <=> k = n + 1
    BY <1>1, <1>3, <2>2, <2>3, <2>4, <2>5 DEF AckAt
  <2>7. JoinFits'
    BY <1>1, <1>3, <1>4, <2>6 DEF JoinFits
  <2>8. AdmittedFits'
    BY <1>1, <2>1 DEF AdmittedFits
  <2>9. ShownAt(n + 2)' /\ toBot'[n + 2].roster = Truth' /\ \A k \in DOMAIN toBot' : ~(k > n + 2)
    BY <1>1, <2>4, <2>5 DEF ShownAt, Truth, ListenersIn
  <2>10. RosterArrives'
    BY <2>5, <2>9 DEF RosterArrives
  <2>11. WordArrives'
    <3>1. CASE toServer' # <<>>
      BY <3>1 DEF WordArrives
    <3>2. CASE toServer' = <<>>
      <4>1. Len(toServer) = 1
        <5>1. Len(toServer') = 0
          BY <1>2, <3>2, Lengths
        <5>2. QED
          BY <1>2, <5>1
      <4>2. set.roster = {}
        BY <1>1, <1>2, <1>3, <4>1 DEF WordFits, Word, JoinAt
      <4>3. Bot \in Truth'
        BY DEF Truth
      <4>4. ShownAt(n + 2)' /\ n + 2 \in DOMAIN toBot' /\ toBot'[n + 2].roster # set'.roster
        BY <1>1, <2>5, <2>9, <4>2, <4>3
      <4>5. QED
        BY <4>4 DEF WordArrives
    <3>3. QED
      BY <3>1, <3>2
  <2>12. QED
    BY <1>5, <2>7, <2>8, <2>10, <2>11 DEF SocketInv
<1>8. QED
  BY <1>6, <1>7

\* After s comes w, made of a, b and c.
MadeOf(v, s, w, a, b, c) ==
    /\ v = s \o w
    /\ \A j \in DOMAIN w : \/ \E i \in DOMAIN a : w[j] = a[i]
                           \/ \E i \in DOMAIN b : w[j] = b[i]
                           \/ \E i \in DOMAIN c : w[j] = c[i]

LEMMA Parts ==
    ASSUME NEW E, NEW s \in Seq(E), NEW a \in Seq(E), NEW b \in Seq(E), NEW c \in Seq(E)
    PROVE  \E w \in Seq(E) : MadeOf(s \o a \o b \o c, s, w, a, b, c)
<1> DEFINE bc == b \o c
           w == a \o bc
<1>1. a \o b \in Seq(E) /\ bc \in Seq(E) /\ s \o a \in Seq(E) /\ w \in Seq(E)
  OBVIOUS
<1>2. (s \o a) \o b \o c = (s \o a) \o (b \o c)
  BY <1>1
<1>3. s \o a \o b \o c = s \o w
  BY <1>1, <1>2
<1>4. \A j \in DOMAIN bc : (\E i \in DOMAIN b : bc[j] = b[i]) \/ (\E i \in DOMAIN c : bc[j] = c[i])
  BY Grown
<1> HIDE DEF bc
<1>5. \A j \in DOMAIN w : (\E i \in DOMAIN a : w[j] = a[i]) \/ (\E i \in DOMAIN bc : w[j] = bc[i])
  BY <1>1, Grown
<1> HIDE DEF w
<1>6. \A j \in DOMAIN w : \/ \E i \in DOMAIN a : w[j] = a[i]
                          \/ \E i \in DOMAIN b : w[j] = b[i]
                          \/ \E i \in DOMAIN c : w[j] = c[i]
  BY <1>4, <1>5
<1>7. QED
  BY <1>1, <1>3, <1>6 DEF MadeOf

\* The server reads a request, whichever it is.
LEMMA ServingKeepsAnswers ==
    ASSUME BotInv, SocketInv, set # None, NumbersFit', ServerReceives
    PROVE  SocketInv'
<1>1. /\ TypeOK /\ NumbersFit /\ JoinFits /\ WordFits /\ set \in Sets
      /\ toServer \in Seq(Requests) /\ toBot \in Seq(Messages)
      /\ UNCHANGED <<botVars, location>> /\ toServer # <<>> /\ toServer' = Tail(toServer)
  BY BotInvFacts DEF BotInv, SocketInv, TypeOK, ServerReceives
<1>2. PICK m \in Requests : m = Head(toServer) /\ m = toServer[1] /\ 1 \in DOMAIN toServer
  BY <1>1, HeadAndTail
<1>3. CASE JoinAt(1)
  BY <1>2, <1>3, <1>1, JoiningKeepsSocket DEF JoinAt, ServerReceives
<1>4. CASE ~JoinAt(1) /\ \E i : JoinAt(i)
  <2>1. m.kind = "join" => m.set # set.id /\ m.set \in Nat
    BY <1>2, <1>4, RequestFields DEF JoinAt
  <2>2. m.room \in Rooms /\ botRoom \in Rooms \cup {None}
    BY <1>1, RequestFields DEF TypeOK
  <2>3. \E a : Comes(a)
    <3>1. CASE m.kind = "join" /\ JoinsServer(m)
      <4> DEFINE left == IF botRoom = m.room THEN None ELSE botRoom
                 p == SnapshotIfAny(left, location, m.room, muted)
                 q == [kind |-> "joinAck", set |-> m.set, ok |-> TRUE]
                 g == <<q>>
                 s == SnapshotIfAny(m.room, location, m.room, muted)
      <4>1. toBot' = toBot \o p \o g \o s
        BY <2>2, <3>1, NoneAssumption DEF JoinsServer, SnapshotIfAny
      <4>2. left \in Rooms \cup {None}
        BY <2>2
      <4> HIDE DEF left
      <4>3. p \in Seq(Messages) /\ \A j \in DOMAIN p : p[j].kind = "snapshot"
        <5>1. Says(p, left, location, m.room)
          BY <4>2, SnapshotSays
        <5> HIDE DEF p
        <5>2. QED
          BY <5>1 DEF Says
      <4>4. s \in Seq(Messages) /\ \A j \in DOMAIN s : s[j].kind = "snapshot"
        <5>1. Says(s, m.room, location, m.room)
          BY <2>2, SnapshotSays
        <5> HIDE DEF s
        <5>2. QED
          BY <5>1 DEF Says
      <4>5. q \in Messages /\ q.set # set.id
        BY <2>1, <3>1 DEF Messages
      <4> HIDE DEF p, q, s
      <4>6. g \in Seq(Messages) /\ \A j \in DOMAIN g : g[j] = q
        BY <1>1, <4>5, One
      <4>7. \A j \in DOMAIN g : g[j].set # set.id
        BY <4>5, <4>6
      <4> HIDE DEF g
      <4>8. \E w \in Seq(Messages) : MadeOf(toBot \o p \o g \o s, toBot, w, p, g, s)
        BY <1>1, <4>3, <4>4, <4>6, Parts
      <4>9. PICK w \in Seq(Messages) : MadeOf(toBot', toBot, w, p, g, s)
        BY <4>1, <4>8
      <4>10. Comes(w)
        BY <4>3, <4>4, <4>7, <4>9 DEF MadeOf, Comes
      <4>11. QED
        BY <4>10
    <3>2. CASE m.kind = "join" /\ JoinRefused(m)
      <4> DEFINE q == [kind |-> "joinAck", set |-> m.set, ok |-> FALSE]
                 g == <<q>>
      <4>1. toBot' = Append(toBot, q)
        BY <3>2 DEF JoinRefused
      <4>2. q \in Messages /\ q.set # set.id
        BY <2>1, <3>2 DEF Messages
      <4> HIDE DEF q
      <4>3. toBot' = toBot \o g /\ g \in Seq(Messages) /\ \A j \in DOMAIN g : g[j] = q
        BY <1>1, <4>1, <4>2, One
      <4>4. \A j \in DOMAIN g : g[j].set # set.id
        BY <4>2, <4>3
      <4> HIDE DEF g
      <4>5. QED
        BY <4>3, <4>4 DEF Comes
    <3>3. CASE m.kind = "leave" /\ LeavesServer(m)
      <4> DEFINE s == SnapshotIfAny(m.room, location, None, muted)
                 n == IF botRoom = m.room THEN s ELSE <<>>
      <4>1. toBot' = toBot \o n
        BY <1>1, <2>2, <3>3, NothingMore, NoneAssumption DEF LeavesServer, SnapshotIfAny
      <4>2. s \in Seq(Messages) /\ \A j \in DOMAIN s : s[j].kind = "snapshot"
        <5>1. Says(s, m.room, location, None)
          BY <2>2, SnapshotSays
        <5> HIDE DEF s
        <5>2. QED
          BY <5>1 DEF Says
      <4> HIDE DEF s
      <4>3. n \in Seq(Messages) /\ \A j \in DOMAIN n : n[j].kind = "snapshot"
        BY <4>2, NothingMore
      <4> HIDE DEF n
      <4>4. QED
        BY <4>1, <4>3 DEF Comes
    <3>4. CASE m.kind = "publish" /\ Publishes(m)
      BY <1>1, <3>4, NothingMore DEF Publishes, Comes
    <3>5. QED
      BY <1>2, <3>1, <3>2, <3>3, <3>4 DEF ServerReceives
  <2>4. QED
    BY <1>1, <1>4, <2>3, Answering
<1>5. CASE ~(\E i : JoinAt(i))
  <2>1. \A i \in DOMAIN toServer : Word(i)
    BY <1>1, <1>5 DEF JoinFits
  <2>2. m.kind = "publish" /\ m.room = set.room
    BY <1>2, <2>1 DEF Word
  <2>3. Publishes(m)
    BY <1>2, <2>2 DEF ServerReceives
  <2>4. toBot' = toBot /\ botRoom' = botRoom
    BY <2>3 DEF Publishes
  <2>5. Comes(<<>>)
    BY <1>1, <2>4, NothingMore DEF Comes
  <2>6. ASSUME toServer' = <<>>, botRoom = set.room, NEW u \in Watchers, location[u] = set.room
        PROVE  panel'[u][set.room] = Current
    <3>1. m.queue = Current
      <4>1. Len(toServer) = 1
        <5>1. Len(Tail(toServer)) = 0 /\ Len(toServer) \in Nat \ {0} /\ Len(Tail(toServer)) = Len(toServer) - 1
          BY <1>1, <2>6, HeadAndTail, Lengths
        <5>2. QED
          BY <5>1
      <4>2. QED
        BY <1>1, <1>2, <1>5, <4>1 DEF WordFits
    <3>2. panel[u] \in [Rooms -> Queues] /\ set.room \in Rooms
      BY <1>1, SetFields DEF TypeOK
    <3>3. panel'[u] = [panel[u] EXCEPT ![set.room] = m.queue]
      BY <2>2, <2>3, <2>6 DEF Publishes
    <3>4. QED
      BY <3>1, <3>2, <3>3
  <2>7. QED
    BY <1>1, <1>5, <2>4, <2>5, <2>6, Answering
<1>6. QED
  BY <1>3, <1>4, <1>5

\* A Set is begun: its number is new, so nothing on the socket is about it but its own
\* join.
LEMMA BeginKeepsSocket ==
    ASSUME BotInv, SocketInv, Begin, NumbersFit' PROVE SocketInv'
<1>1. /\ TypeOK /\ NumbersFit /\ minted.sets \in Nat /\ toServer \in Seq(Requests) /\ toBot \in Seq(Messages)
      /\ chain # <<>> /\ Task.kind = "add" /\ Task.room \in Rooms
  BY BotInvFacts, TaskFields, TaskKinds DEF BotInv, ChainFits, Begin, SocketInv, TypeOK
<1> DEFINE id == minted.sets + 1
           m == [kind |-> "join", set |-> id, room |-> Task.room]
<1>2. /\ set' = NewSet(id, Task.room) /\ toServer' = Append(toServer, m) /\ step' = "joining"
      /\ toBot' = toBot /\ chain' = chain
  BY DEF Begin
<1>3. /\ set'.id = id /\ set'.room = Task.room /\ set'.roster = {} /\ ~set'.joined /\ id \in Nat
      /\ \A n \in Nat : n <= minted.sets => n # id
  BY <1>1, <1>2 DEF NewSet
<1>4. m \in Requests /\ m.kind = "join" /\ m.set = id /\ m.room = Task.room
  BY <1>1 DEF Requests
<1> HIDE DEF id, m
<1>5. /\ \A i \in DOMAIN toServer' : \/ i \in DOMAIN toServer /\ toServer'[i] = toServer[i]
                                     \/ i = Len(toServer) + 1 /\ toServer'[i] = m
      /\ Len(toServer') = Len(toServer) + 1 /\ Len(toServer) \in Nat /\ toServer' \in Seq(Requests)
      /\ Len(toServer) + 1 \in DOMAIN toServer' /\ toServer'[Len(toServer) + 1] = m
  BY <1>1, <1>2, <1>4, Appended
<1>6. \A k : ~AckAt(k)'
  BY <1>2, <1>3, <1>1, MessageFields DEF AckAt, NumbersFit
<1>7. \A i : JoinAt(i)' <=> i = Len(toServer) + 1
  BY <1>3, <1>1, RequestFields, <1>4, <1>5 DEF JoinAt, NumbersFit
<1>8. PICK n : n = Len(toServer) + 1 /\ n \in DOMAIN toServer' /\ toServer'[n] = m /\ n = Len(toServer')
               /\ JoinAt(n)' /\ (\A i : JoinAt(i)' <=> i = n) /\ DOMAIN toServer' = 1..n /\ n \in Nat
  BY <1>5, <1>7, Lengths
<1>9. JoinFits'
  BY <1>8, <1>2, <1>3, <1>4, <1>6 DEF JoinFits
<1>10. WordFits'
  BY <1>3, <1>8 DEF WordFits, JoinAt
<1>11. ~Admitted'
  BY <1>3, <1>6 DEF Admitted
<1>12. QED
  BY <1>9, <1>10, <1>11 DEF SocketInv, AdmittedFits

LEMMA SocketInvInit == Init => SocketInv
  BY DEF Init, SocketInv, NumbersFit

LEMMA SocketInvNext == BotInv /\ SocketInv /\ [Next]_vars => SocketInv'
<1> SUFFICES ASSUME BotInv, SocketInv, [Next]_vars PROVE SocketInv'
  OBVIOUS
<1>1. CASE UNCHANGED vars
  BY <1>1, NothingSaid, BotAlone DEF vars, botVars, serverVars, SocketInv, NumbersFit, GoesOn, BotInv
<1>2. CASE Next
  <2>1. NumbersFit'
    BY <1>2, NumbersNext DEF SocketInv
  <2>2. CASE set' = None
    BY <2>1, <2>2 DEF SocketInv
  <2>3. CASE set' # None
    <3>1. CASE Begin
      BY <2>1, <3>1, BeginKeepsSocket
    <3>2. CASE Command \/ OwnerNext
      BY <2>3, <3>2, <2>1, PeopleKeepSocket DEF Command, Ask, OwnerNext, Evict, Moderate, Move, botVars
    <3>3. CASE BotReceives
      BY <2>3, <3>3, <2>1, HearingKeepsSocket DEF BotInv, BotReceives, Enqueue, Snapshot, SetIn, SetIs, ForceLeave,
         JoinAck
    <3>4. CASE ServerReceives
      BY <2>3, <3>4, <2>1, ServingKeepsAnswers DEF ServerReceives, botVars
    <3>5. CASE JoinTimesOut \/ Recover \/ ApplyEnding
      BY <2>3, <3>5 DEF JoinTimesOut, Recover, ApplyEnding, EndSet
    <3>6. CASE Closed
      BY <2>3, <3>6 DEF BotInv, ChainFits, Closed
    <3>7. CASE AddBegins \/ AddUnresolved \/ AddResolved \/ AddEnds \/ ApplyAtOnce \/ ApplyNothing
                 \/ PlayerFinishes \/ FetchFails \/ GraceFires
      <4>1. set # None
        <5>1. CASE AddEnds
          BY <5>1 DEF BotInv, ChainFits, AddEnds
        <5>2. CASE ApplyAtOnce
          BY <2>3, <5>2 DEF ApplyAtOnce, About, SetIn, SetIs
        <5>3. CASE AddBegins \/ AddUnresolved \/ AddResolved \/ ApplyNothing \/ PlayerFinishes \/ FetchFails \/ GraceFires
          BY <2>3, <5>3 DEF AddBegins, AddUnresolved, AddResolved, EndSet, ApplyNothing, ForgetQueue,
                            PlayerFinishes, FetchFails, GraceFires
        <5>4. QED
          BY <3>7, <5>1, <5>2, <5>3
      <4>2. QED
        BY <2>3, <3>7, <4>1, ServingKeepsSocket
    <3>8. QED
      BY <1>2, <3>1, <3>2, <3>3, <3>4, <3>5, <3>6, <3>7 DEF Next, ChainNext
  <2>4. QED
    BY <2>2, <2>3
<1>3. QED
  BY <1>1, <1>2

\* So does the second, on the first.
LEMMA SocketInvHolds == Spec => [](BotInv /\ SocketInv)
<1>1. Init => BotInv /\ SocketInv
  BY BotInvInit, SocketInvInit
<1>2. (BotInv /\ SocketInv) /\ [Next]_vars => (BotInv /\ SocketInv)'
  BY BotInvNext, SocketInvNext
<1>3. QED
  BY <1>1, <1>2, PTL DEF Spec

\* What the bot plays and fetches follows the Queue, the Grace period follows the room,
\* and at rest every member in the room has been told the Queue as it is: whoever walked
\* in or was there all along, and whatever crossed on the socket.
THEOREM TheRoomIsServed == Spec => []RoomIsServed
<1>1. BotInv /\ SocketInv => RoomIsServed
  <2> SUFFICES ASSUME BotInv, SocketInv PROVE RoomIsServed
    OBVIOUS
  <2>1. PlayerFollowsTheQueue /\ FetchFollowsTheQueue /\ GraceFollowsTheRoom
    BY DEF BotInv, SetFits, PlayerFits, PlayerFollowsTheQueue
  <2>2. PanelTellsTheQueue
    BY BotInvFacts, SetFields DEF PanelTellsTheQueue, Current, ListenersIn, Quiet, BotInv, ChainFits, SetFits,
       Admitted, Evicted, SocketInv, AdmittedFits, WordArrives
  <2>3. QED
    BY <2>1, <2>2 DEF RoomIsServed
<1>2. QED
  BY <1>1, SocketInvHolds, PTL

------------------------
(* The bot's membership, where every join is answered. *)

\* Requests that are no joins follow, and the Set goes on, if there is one.
LEMMA MembersStay ==
    ASSUME BotInv, SocketInv, MembershipInv,
           NEW w \in Seq(Requests), toServer' = toServer \o w, \A j \in DOMAIN w : w[j].kind # "join",
           botRoom' = botRoom \/ botRoom' = None, closing' = closing,
           \/ set = None /\ set' = None
           \/ /\ set # None /\ set' # None
              /\ step = "joining" => set'.id = set.id
              /\ Admitted => Admitted'
    PROVE  MembershipInv'
<1>1. toServer \in Seq(Requests) /\ TypeOK
  BY DEF BotInv, TypeOK
<1>2. /\ \A i \in DOMAIN toServer : i \in DOMAIN toServer' /\ toServer'[i] = toServer[i]
      /\ \A i \in DOMAIN toServer' :
            i \in DOMAIN toServer \/ (i - Len(toServer) \in DOMAIN w /\ toServer'[i] = w[i - Len(toServer)])
  BY <1>1, Grown
<1>3. ASSUME NEW i \in DOMAIN toServer', toServer'[i].kind = "join" PROVE set' # None /\ JoinAt(i)'
  BY <1>2, <1>3 DEF MembershipInv, SocketInv, JoinFits, JoinAt
<1>4. LeaveComing /\ botRoom' = botRoom => LeaveComing'
  BY <1>2 DEF LeaveComing
<1>5. QED
  BY <1>3, <1>4 DEF MembershipInv

LEMMA NothingSent ==
    ASSUME TypeOK, toServer' = toServer
    PROVE  \E w \in Seq(Requests) : toServer' = toServer \o w /\ \A j \in DOMAIN w : w[j].kind # "join"
BY NothingMore DEF TypeOK

\* A Set that joined says goodbye.
LEMMA EndingKeepsMembership ==
    ASSUME BotInv, SocketInv, MembershipInv, EndSet, step # "joining", UNCHANGED <<toBot, botRoom>>
    PROVE  MembershipInv'
<1>1. toServer \in Seq(Requests) /\ TypeOK /\ set # None /\ set \in Sets /\ set' = None /\ SetFits /\ ChainFits
  BY BotInvFacts DEF BotInv, TypeOK, EndSet
<1>2. PICK w \in Seq(Requests) : toServer' = toServer \o w /\ \A j \in DOMAIN w : w[j].kind = "publish"
  BY EndSetSends
<1>3. /\ \A i \in DOMAIN toServer : i \in DOMAIN toServer' /\ toServer'[i] = toServer[i]
      /\ \A i \in DOMAIN toServer' :
            i \in DOMAIN toServer \/ (i - Len(toServer) \in DOMAIN w /\ toServer'[i] = w[i - Len(toServer)])
  BY <1>1, <1>2, Grown
<1>4. ASSUME NEW i \in DOMAIN toServer', toServer'[i].kind = "join" PROVE FALSE
  BY <1>2, <1>3, <1>4, <1>1 DEF MembershipInv, SocketInv, JoinFits
<1>5. ASSUME botRoom # None, Admitted PROVE closing' = botRoom
  BY <1>1, <1>5, SetFields DEF Admitted, SocketInv, JoinFits, SetFits, AdmittedFits, EndSet
<1>6. LeaveComing => LeaveComing'
  BY <1>3 DEF LeaveComing
<1>7. closing = None
  BY <1>1 DEF ChainFits
<1>8. QED
  BY <1>1, <1>4, <1>5, <1>6, <1>7 DEF MembershipInv

LEMMA ClosedKeepsMembership ==
    ASSUME BotInv, SocketInv, MembershipInv, Closed
    PROVE  MembershipInv'
<1>1. /\ TypeOK /\ toServer \in Seq(Requests) /\ set = None /\ set' = None /\ botRoom' = botRoom
      /\ closing \in Rooms \cup {None}
  BY DEF BotInv, TypeOK, ChainFits, Closed, serverVars
<1>2. \A i \in DOMAIN toServer : toServer[i].kind # "join"
  BY <1>1 DEF MembershipInv
<1>3. CASE closing = None
  BY <1>1, <1>2, <1>3 DEF Closed, MembershipInv, LeaveComing
<1>4. CASE closing # None
  <2> DEFINE m == [kind |-> "leave", room |-> closing]
  <2>1. m \in Requests /\ m.kind = "leave" /\ m.room = closing
    BY <1>1, <1>4 DEF Requests
  <2>2. toServer' = Append(toServer, m)
    BY <1>4 DEF Closed
  <2> HIDE DEF m
  <2>3. /\ \A i \in DOMAIN toServer : i \in DOMAIN toServer' /\ toServer'[i] = toServer[i]
        /\ \A i \in DOMAIN toServer' : i \in DOMAIN toServer \/ toServer'[i] = m
        /\ \E i \in DOMAIN toServer' : toServer'[i] = m
    BY <1>1, <2>1, <2>2, Appended
  <2>4. \A i \in DOMAIN toServer' : toServer'[i].kind # "join"
    BY <1>2, <2>1, <2>3
  <2>5. botRoom # None => LeaveComing'
    BY <1>1, <2>3, <2>1 DEF LeaveComing, MembershipInv
  <2>6. QED
    BY <1>1, <2>4, <2>5 DEF MembershipInv
<1>5. QED
  BY <1>3, <1>4

LEMMA BeginKeepsMembership ==
    ASSUME BotInv, SocketInv, MembershipInv, Begin
    PROVE  MembershipInv'
<1>1. /\ TypeOK /\ minted.sets \in Nat /\ toServer \in Seq(Requests) /\ set = None /\ closing = None
      /\ Task.room \in Rooms /\ botRoom' = botRoom
  BY BotInvFacts, TaskFields, TaskKinds DEF BotInv, ChainFits, Begin, serverVars, TypeOK
<1> DEFINE id == minted.sets + 1
           m == [kind |-> "join", set |-> id, room |-> Task.room]
<1>2. set' = NewSet(id, Task.room) /\ toServer' = Append(toServer, m)
  BY DEF Begin
<1>3. set'.id = id /\ id \in Nat /\ set' \in Sets
  BY BeginKeeps, <1>1, <1>2, BotInvFacts DEF Begin, BotInv, ChainFits, NewSet, TypeOK
<1>4. m \in Requests /\ m.kind = "join" /\ m.set = id
  BY <1>1, <1>3 DEF Requests
<1> HIDE DEF id, m
<1>5. /\ \A i \in DOMAIN toServer : i \in DOMAIN toServer' /\ toServer'[i] = toServer[i]
      /\ \A i \in DOMAIN toServer' : i \in DOMAIN toServer \/ toServer'[i] = m
  BY <1>1, <1>2, <1>4, Appended
<1>6. ASSUME NEW i \in DOMAIN toServer', toServer'[i].kind = "join" PROVE set' # None /\ JoinAt(i)'
  BY <1>1, <1>5, <1>6, <1>3, <1>4, SetFields DEF MembershipInv, JoinAt
<1>7. botRoom' # None => LeaveComing'
  BY <1>1, <1>5 DEF MembershipInv, LeaveComing
<1>8. QED
  BY <1>6, <1>7 DEF MembershipInv

LEMMA AnswersKeepMembership ==
    ASSUME BotInv, SocketInv, MembershipInv, ServerReceives
    PROVE  MembershipInv'
<1>1. /\ TypeOK /\ toServer \in Seq(Requests) /\ toBot \in Seq(Messages) /\ UNCHANGED <<botVars, location>>
      /\ toServer # <<>> /\ toServer' = Tail(toServer)
  BY DEF BotInv, TypeOK, ServerReceives
<1>2. PICK m \in Requests : m = Head(toServer) /\ m = toServer[1] /\ 1 \in DOMAIN toServer
  BY <1>1, HeadAndTail
<1>3. /\ \A i \in DOMAIN toServer' : i + 1 \in DOMAIN toServer /\ toServer'[i] = toServer[i + 1]
      /\ \A i \in DOMAIN toServer : i = 1 \/ (i - 1 \in DOMAIN toServer' /\ toServer'[i - 1] = toServer[i])
  BY <1>1, HeadAndTail
<1>4. set' = set /\ closing' = closing
  BY <1>1 DEF botVars
<1>5. ASSUME NEW i \in DOMAIN toServer', toServer'[i].kind = "join" PROVE set' # None /\ JoinAt(i)'
  BY <1>3, <1>5, <1>4 DEF MembershipInv, JoinAt
<1>6. ASSUME NEW r, r # None, botRoom = r, botRoom' = r, ~(m.kind = "leave" /\ m.room = r), LeaveComing
      PROVE  LeaveComing'
  BY <1>6, <1>2, <1>3 DEF LeaveComing
<1>7. CASE m.kind = "join" /\ JoinsServer(m)
  <2>1. set # None /\ JoinAt(1)
    BY <1>2, <1>7 DEF MembershipInv
  <2>2. m.set = set.id
    BY <1>2, <2>1 DEF JoinAt
  <2>3. Admitted'
    <3> DEFINE p == SnapshotIfAny(IF botRoom = m.room THEN None ELSE botRoom, location, m.room, muted)
               q == [kind |-> "joinAck", set |-> m.set, ok |-> TRUE]
               s == SnapshotIfAny(m.room, location, m.room, muted)
    <3>1. m.room \in Rooms /\ m.set \in Nat /\ m.room # None
      BY <1>7, RequestFields, NoneAssumption
    <3>2. toBot' = toBot \o p \o <<q>> \o s
      BY <1>7, <3>1 DEF JoinsServer, SnapshotIfAny
    <3>3. p \in Seq(Messages)
      <4>1. (IF botRoom = m.room THEN None ELSE botRoom) \in Rooms \cup {None}
        BY <1>1 DEF TypeOK
      <4>2. Says(p, IF botRoom = m.room THEN None ELSE botRoom, location, m.room)
        BY <4>1, SnapshotSays
      <4> HIDE DEF p
      <4>3. QED
        BY <4>2 DEF Says
    <3>4. q \in Messages /\ q.kind = "joinAck" /\ q.ok /\ q.set = m.set
      BY <3>1 DEF Messages
    <3>5. s \in Seq(Messages) /\ Len(s) = 1
      <4>1. Says(s, m.room, location, m.room)
        BY <3>1, SnapshotSays
      <4> HIDE DEF s
      <4>2. QED
        BY <3>1, <4>1 DEF Says
    <3> HIDE DEF p, q, s
    <3>6. s = <<s[1]>> /\ s[1] \in Messages
      BY <3>5, Single
    <3>7. \E n \in Nat : Ending(toBot \o p \o <<q>> \o <<s[1]>>, toBot, p, q, s[1], n)
      BY <1>1, <3>3, <3>4, <3>6, Endings
    <3>8. toBot' = toBot \o p \o <<q>> \o <<s[1]>>
      BY <3>2, <3>6
    <3>9. \E n \in Nat : Ending(toBot', toBot, p, q, s[1], n)
      BY <3>7, <3>8
    <3>10. PICK n \in Nat : n + 1 \in DOMAIN toBot' /\ toBot'[n + 1] = q
      BY <3>9 DEF Ending
    <3>11. AckAt(n + 1)' /\ toBot'[n + 1].ok
      BY <1>4, <2>2, <3>4, <3>10 DEF AckAt
    <3>12. QED
      BY <3>10, <3>11 DEF Admitted
  <2>4. QED
    BY <1>4, <1>5, <2>1, <2>3 DEF MembershipInv
<1>8. CASE m.kind = "join" /\ JoinRefused(m)
  BY <1>2, <1>8, BotInvFacts, SetFields, <1>4, <1>5, <1>6 DEF MembershipInv, JoinRefused, SocketInv, JoinFits,
     BotInv, SetFits, Admitted
<1>9. CASE m.kind = "leave" /\ LeavesServer(m)
  BY <1>5, <1>9, <1>4, <1>6 DEF MembershipInv, LeavesServer, Admitted, AckAt
<1>10. CASE m.kind = "publish" /\ Publishes(m)
  BY <1>10, <1>4, <1>5, <1>6 DEF Publishes, Admitted, AckAt, MembershipInv
<1>11. QED
  BY <1>2, <1>7, <1>8, <1>9, <1>10 DEF ServerReceives

\* What people do only adds to what the bot is sent.
LEMMA PeopleAdd ==
    ASSUME TypeOK, Command \/ OwnerNext
    PROVE  \A k \in DOMAIN toBot : k \in DOMAIN toBot' /\ toBot'[k] = toBot[k]
<1>1. toBot \in Seq(Messages) /\ botRoom \in Rooms \cup {None} /\ location \in [Listeners -> Rooms \cup {None}]
  BY DEF TypeOK
<1>2. ASSUME NEW a \in Seq(Messages), NEW b \in Seq(Messages), toBot' = toBot \o a \o b
      PROVE  \A k \in DOMAIN toBot : k \in DOMAIN toBot' /\ toBot'[k] = toBot[k]
  <2>1. toBot' = toBot \o (a \o b) /\ a \o b \in Seq(Messages)
    BY <1>1, <1>2, Regrouped
  <2> DEFINE c == a \o b
  <2>2. toBot' = toBot \o c /\ c \in Seq(Messages)
    BY <2>1
  <2> HIDE DEF c
  <2>3. QED
    BY <1>1, <2>2, Grown
<1>3. CASE Command
  <2>1. PICK t : toBot' = Append(toBot, t)
    BY <1>3 DEF Command, Ask
  <2>2. QED
    BY <1>1, <2>1
<1>4. CASE Evict
  <2>1. PICK told \in {SnapshotOf(botRoom, location, None, muted), <<>>} :
            toBot' = toBot \o told \o <<[kind |-> "forceLeave", room |-> botRoom]>>
    BY <1>4 DEF Evict
  <2>2. botRoom \in Rooms
    BY <1>1, <1>4 DEF Evict
  <2>3. told \in Seq(Messages)
    <3>1. <<>> \in Seq(Messages)
      BY <1>1, NothingMore
    <3>2. SnapshotOf(botRoom, location, None, muted) \in Seq(Messages)
      BY <2>2, SnapshotTyped
    <3>3. QED
      BY <2>1, <3>1, <3>2
  <2> DEFINE f == <<[kind |-> "forceLeave", room |-> botRoom]>>
  <2>4. f \in Seq(Messages)
    <3>1. [kind |-> "forceLeave", room |-> botRoom] \in Messages
      BY <2>2 DEF Messages
    <3>2. QED
      BY <3>1
  <2>5. toBot' = toBot \o told \o f
    BY <2>1
  <2> HIDE DEF f
  <2>6. QED
    BY <1>2, <2>3, <2>4, <2>5
<1>5. CASE Moderate
  <2> DEFINE a == SnapshotIfAny(botRoom, location, botRoom, ~muted)
  <2>1. toBot' = toBot \o a
    BY <1>5 DEF Moderate
  <2>2. a \in Seq(Messages)
    BY <1>1, SnapshotTyped
  <2> HIDE DEF a
  <2>3. QED
    BY <1>1, <2>1, <2>2, Grown
<1>6. CASE \E u \in Listeners, r \in Rooms \cup {None} : Move(u, r)
  <2>1. PICK u \in Listeners, r \in Rooms \cup {None} : Move(u, r)
    BY <1>6
  <2> DEFINE w == [location EXCEPT ![u] = r]
             p == SnapshotIfAny(location[u], w, botRoom, muted)
             q == SnapshotIfAny(r, w, botRoom, muted)
  <2>2. toBot' = toBot \o p \o q
    BY <2>1 DEF Move
  <2> HIDE DEF w
  <2>3. p \in Seq(Messages) /\ q \in Seq(Messages)
    BY <1>1, SnapshotTyped
  <2> HIDE DEF p, q
  <2>4. QED
    BY <1>2, <2>2, <2>3
<1>7. QED
  BY <1>3, <1>4, <1>5, <1>6 DEF OwnerNext

\* A step of the bot in which the Set is the one it was, if there is one.
LEMMA MembersStayAlone ==
    ASSUME BotInv, SocketInv, MembershipInv, UNCHANGED <<toBot, botRoom, closing>>,
           \/ set = None /\ set' = None
           \/ set # None /\ set' # None /\ set'.id = set.id /\ set'.joined = set.joined,
           \E w \in Seq(Requests) : toServer' = toServer \o w /\ \A j \in DOMAIN w : w[j].kind # "join"
    PROVE  MembershipInv'
BY MembersStay DEF Admitted, AckAt

LEMMA ServingKeepsMembership ==
    ASSUME BotInv, SocketInv, MembershipInv,
           AddBegins \/ AddUnresolved \/ AddEnds \/ ApplyAtOnce \/ ApplyNothing
             \/ PlayerFinishes \/ FetchFails \/ GraceFires
    PROVE  MembershipInv'
<1>1. TypeOK /\ SetFits /\ ChainFits
  BY DEF BotInv
<1>2. CASE AddBegins \/ AddUnresolved \/ ApplyNothing \/ PlayerFinishes \/ FetchFails \/ GraceFires
  <2>1. /\ toServer' = toServer /\ UNCHANGED <<toBot, botRoom, closing>>
        /\ \/ set' = set
           \/ set # None /\ set' = [set EXCEPT !.sounding = FALSE, !.finished = TRUE]
    BY <1>2 DEF AddBegins, AddUnresolved, ApplyNothing, ForgetQueue, PlayerFinishes, FetchFails, GraceFires, serverVars
  <2>2. \/ set = None /\ set' = None
        \/ set # None /\ set' # None /\ set'.id = set.id /\ set'.joined = set.joined
    <3>1. CASE set' = set
      BY <3>1
    <3>2. CASE set # None /\ set' = [set EXCEPT !.sounding = FALSE, !.finished = TRUE]
      BY <3>2, BotInvFacts, SetFields DEF Sets
    <3>3. QED
      BY <2>1, <3>1, <3>2
  <2>3. QED
    BY <1>1, <2>1, <2>2, NothingSent, MembersStayAlone
<1>3. ASSUME set # None, step # "joining", step # "refused", UNCHANGED <<toBot, botRoom, closing>>,
             NEW r, Plain(playback, r), Advance(set, r, <<>>),
             \/ Keeps(playback, r)
             \/ Starts(playback, r)
             \/ Empties(playback, r) /\ ("stop" \in r.effects \/ ~playback.playing \/ set.finished)
      PROVE  MembershipInv'
  <2>1. set \in Sets /\ playback \in PlaybackState /\ r.state \in PlaybackState
    BY <1>3, BotInvFacts DEF Plain
  <2>2. PlayerFits(set, playback)
    BY <1>1, <1>3, <2>1, SetFields DEF SetFits
  <2>3. set' = Driven(set, r.effects, r.state)
    BY <1>3 DEF Advance
  <2>4. set' \in Sets /\ SameSet(set, set')
    BY <1>3, <2>1, <2>2, <2>3, DrivenFits
  <2>5. set' # None /\ set'.id = set.id /\ set'.joined = set.joined
    BY <2>4, SetFields DEF SameSet
  <2>6. \E w \in Seq(Requests) : toServer' = toServer \o w /\ \A j \in DOMAIN w : w[j].kind = "publish"
    <3>1. <<>> \in Seq(Requests) /\ \A j \in DOMAIN <<>> : <<>>[j].kind = "publish"
      OBVIOUS
    <3>2. QED
      BY <1>3, <2>1, <3>1, AdvanceSends
  <2>7. \E w \in Seq(Requests) : toServer' = toServer \o w /\ \A j \in DOMAIN w : w[j].kind # "join"
    <3>1. PICK w \in Seq(Requests) : toServer' = toServer \o w /\ \A j \in DOMAIN w : w[j].kind = "publish"
      BY <2>6
    <3>2. \A j \in DOMAIN w : w[j].kind # "join"
      BY <3>1
    <3>3. QED
      BY <3>1, <3>2
  <2>8. QED
    BY <1>3, <2>5, <2>7, MembersStayAlone
<1>4. CASE AddEnds
  <2> DEFINE r == Added(playback, minted.entries + 1)
  <2>1. /\ Advance(set, r, <<>>) /\ minted.entries \in Nat /\ step = "adding" /\ set # None
        /\ UNCHANGED <<toBot, botRoom, closing>>
    BY <1>1, <1>4 DEF AddEnds, ChainFits, TypeOK, serverVars
  <2>2. Plain(playback, r) /\ (Keeps(playback, r) \/ Starts(playback, r))
    BY <2>1, BotInvFacts, AddedResult
  <2> HIDE DEF r
  <2>3. QED
    BY <1>3, <2>1, <2>2
<1>5. CASE ApplyAtOnce
  BY <1>5, <1>1, NothingSent, MembersStayAlone, ResultFits, <1>3 DEF ApplyAtOnce, serverVars, About, SetIn, SetIs,
     Fits
<1>6. QED
  BY <1>2, <1>4, <1>5

LEMMA ResolvingKeepsMembership ==
    ASSUME BotInv, SocketInv, MembershipInv, AddResolved \/ Recover \/ ApplyEnding
    PROVE  MembershipInv'
BY EndingKeepsMembership, NothingSent, MembersStayAlone DEF BotInv, AddResolved, Recover, ApplyEnding, serverVars

LEMMA PeopleKeepMembership ==
    ASSUME BotInv, SocketInv, MembershipInv, Command \/ OwnerNext
    PROVE  MembershipInv'
<1>1. /\ TypeOK /\ UNCHANGED <<set, closing, toServer>> /\ (botRoom' = botRoom \/ botRoom' = None)
  BY DEF BotInv, Command, Ask, OwnerNext, Evict, Moderate, Move, botVars, serverVars
<1>2. set # None => (Admitted => Admitted')
  BY <1>1, PeopleAdd DEF Admitted, AckAt
<1>3. PICK w \in Seq(Requests) : toServer' = toServer \o w /\ \A j \in DOMAIN w : w[j].kind # "join"
  BY <1>1, NothingSent
<1>4. QED
  BY <1>1, <1>2, <1>3, MembersStay

LEMMA HearingKeepsMembership ==
    ASSUME BotInv, SocketInv, MembershipInv, NumbersFit', BotReceives
    PROVE  MembershipInv'
<1>1. TypeOK /\ UNCHANGED <<closing, botRoom>> /\ (set = None => SetFits)
  BY DEF BotInv, BotReceives, serverVars
<1>2. CASE set = None
  BY <1>2, <1>1, NothingSent, MembersStay DEF BotReceives, Enqueue, Snapshot, SetIn, SetIs, ForceLeave, JoinAck
<1>3. CASE set # None
  <2>1. GoesOn /\ (Admitted => Admitted') /\ \E w : Speaks(w)
    BY <1>3, HearingKeepsSocket
  <2>2. PICK w : Speaks(w)
    BY <2>1
  <2>3. w \in Seq(Requests) /\ toServer' = toServer \o w /\ \A j \in DOMAIN w : w[j].kind # "join"
    BY <2>2 DEF Speaks, PublishedQueue
  <2>4. QED
    BY <1>1, <1>3, <2>1, <2>3, MembersStay DEF GoesOn
<1>4. QED
  BY <1>2, <1>3

\* Every join is answered in time, so nothing is left a member for no Set.
LEMMA MembershipInvNext ==
    ASSUME ~JoinMayTimeOut, BotInv, SocketInv, MembershipInv, [Next]_vars
    PROVE  MembershipInv'
BY NothingSent, MembersStayAlone, NumbersNext, ServingKeepsMembership, ResolvingKeepsMembership,
   PeopleKeepMembership, HearingKeepsMembership, BeginKeepsMembership, ClosedKeepsMembership, AnswersKeepMembership
   DEF vars, botVars, serverVars, BotInv, SocketInv, JoinTimesOut, Next, ChainNext

\* At rest the bot is a member of exactly the room its Set is in, through refused joins,
\* evictions and changes of room, as long as every join is answered in time.  (Where one
\* is not, MCMusicTimeout shows a membership nothing points at any more.)
THEOREM MembershipFollows == ~JoinMayTimeOut => (Spec => []MembershipFollowsTheSet)
<1>1. Init => MembershipInv
  BY DEF Init, MembershipInv
<1>2. ~JoinMayTimeOut /\ (BotInv /\ SocketInv /\ MembershipInv) /\ [Next]_vars => (BotInv /\ SocketInv /\ MembershipInv)'
  BY BotInvNext, SocketInvNext, MembershipInvNext
<1>3. BotInv /\ SocketInv /\ MembershipInv => MembershipFollowsTheSet
  BY BotInvFacts, SetFields DEF MembershipFollowsTheSet, Quiet, BotInv, ChainFits, LeaveComing, Evicted,
     MembershipInv, SetFits, Admitted, SocketInv, AdmittedFits
<1>4. Init => BotInv /\ SocketInv
  BY BotInvInit, SocketInvInit
<1>5. CASE JoinMayTimeOut
  BY <1>5
<1>6. CASE ~JoinMayTimeOut
  <2>1. (BotInv /\ SocketInv /\ MembershipInv) /\ [Next]_vars => (BotInv /\ SocketInv /\ MembershipInv)'
    BY <1>2, <1>6
  <2>2. QED
    BY <1>1, <1>3, <1>4, <2>1, PTL DEF Spec
<1>7. QED
  BY <1>5, <1>6

=============================================================================
