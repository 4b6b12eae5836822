-------------------------- MODULE KeepAliveProofs --------------------------
(***************************************************************************)
(* The keep-alive for the real word, keep-alive time and delays: that the  *)
(* broker hears in time, and that pings are spaced, for all constants that *)
(* satisfy the assumptions.                                                *)
(***************************************************************************)
EXTENDS KeepAlive, TLAPS

(* A quotient exists.                                                      *)
LEMMA Divides ==
  ASSUME NEW w \in Nat \ {0}, NEW x \in Int
  PROVE  /\ x % w \in 0 .. w - 1
         /\ \E q \in Int : x = q * w + (x % w)
  <1>1. x % w \in 0 .. w - 1
    OBVIOUS
  <1>2. x \div w \in Int
    OBVIOUS
  <1>3. x = (x \div w) * w + (x % w)
    OBVIOUS
  <1> QED BY <1>1, <1>2, <1>3

(* A remainder is unique.                                                  *)
LEMMA UniqueRemainder ==
  ASSUME NEW w \in Nat \ {0}, NEW p \in Int, NEW q \in Int,
         NEW r \in 0 .. w - 1, NEW s \in 0 .. w - 1, p * w + r = q * w + s
  PROVE  r = s
  OBVIOUS

(* Multiples of the word do not matter.                                    *)
LEMMA ModShift ==
  ASSUME NEW w \in Nat \ {0}, NEW x \in Int, NEW y \in Int, NEW k \in Int,
         y = x + k * w
  PROVE  y % w = x % w
  <1>1. PICK p \in Int : x = p * w + (x % w)
    BY Divides
  <1>2. PICK q \in Int : y = q * w + (y % w)
    BY Divides
  <1>3. x % w \in 0 .. w - 1 /\ y % w \in 0 .. w - 1
    BY Divides
  <1>4. p + k \in Int /\ (p + k) * w = p * w + k * w
    OBVIOUS
  <1>5. k * w \in Int /\ p * w \in Int /\ q * w \in Int
    OBVIOUS
  <1>6. (p + k) * w + (x % w) = q * w + (y % w)
    BY <1>1, <1>2, <1>3, <1>4, <1>5
  <1> QED BY <1>3, <1>4, <1>6, UniqueRemainder

(* A remainder is its own.                                                 *)
LEMMA ModSmall ==
  ASSUME NEW w \in Nat \ {0}, NEW x \in 0 .. w - 1
  PROVE  x % w = x
  OBVIOUS

(* The assumptions as facts about numbers.                                 *)
LEMMA Numbers ==
  /\ WordSize \in Nat \ {0} /\ HalfKeepAlive \in Nat /\ LoopPeriod \in Nat \ {0}
  /\ RoundLag \in Nat
  /\ 2 * HalfKeepAlive < WordSize
  BY TimesAssumption, WideEnough DEF KeepAliveTime

(* The unsigned difference is the true one, modulo the word.               *)
LEMMA ElapsedIsMod ==
  ASSUME NEW now \in Int, NEW stamp \in Int
  PROVE  Elapsed(now, stamp) = (now - stamp) % WordSize
  <1> USE Numbers
  <1> DEFINE r == now % WordSize
             t == stamp % WordSize
  <1>1. PICK p \in Int : now = p * WordSize + r
    BY Divides
  <1>2. PICK q \in Int : stamp = q * WordSize + t
    BY Divides
  <1>3. r \in Int /\ t \in Int
    BY Divides
  <1> HIDE DEF r, t
  <1>4. r - t = (now - stamp) + (q - p) * WordSize
    BY <1>1, <1>2, <1>3
  <1>5. (r - t) % WordSize = (now - stamp) % WordSize
    <2>1. r - t \in Int /\ now - stamp \in Int /\ q - p \in Int
      BY <1>3
    <2> QED BY <1>4, <2>1, ModShift
  <1> QED BY <1>5 DEF r, t, Elapsed

(* The unsigned difference to any time with the value of the stamp, if it  *)
(* lies less than a word back.                                             *)
LEMMA ElapsedSince ==
  ASSUME NEW now \in Int, NEW stamp \in Int, NEW base \in Int,
         base % WordSize = stamp % WordSize,
         now - base \in 0 .. WordSize - 1
  PROVE  Elapsed(now, stamp) = now - base
  <1>1. Elapsed(now, stamp) = Elapsed(now, base)
    BY DEF Elapsed
  <1>2. Elapsed(now, base) = (now - base) % WordSize
    BY ElapsedIsMod
  <1> QED BY <1>1, <1>2, ModSmall, Numbers

(* The other way round: so long ago the clock had the value of the stamp.  *)
LEMMA BaseOfElapsed ==
  ASSUME NEW now \in Int, NEW stamp \in Int
  PROVE  /\ Elapsed(now, stamp) \in 0 .. WordSize - 1
         /\ (now - Elapsed(now, stamp)) % WordSize = stamp % WordSize
  <1> USE Numbers
  <1> DEFINE e == Elapsed(now, stamp)
  <1>1. e = (now - stamp) % WordSize
    BY ElapsedIsMod
  <1>2. now - stamp \in Int
    OBVIOUS
  <1>3. PICK q \in Int : now - stamp = q * WordSize + e
    BY <1>1, <1>2, Divides
  <1>4. e \in 0 .. WordSize - 1
    BY <1>1, <1>2, Divides
  <1> HIDE DEF e
  <1>5. now - e = stamp + q * WordSize
    BY <1>3, <1>4
  <1>6. (now - e) % WordSize = stamp % WordSize
    <2>1. now - e \in Int
      BY <1>4
    <2> QED BY <2>1, <1>5, ModShift
  <1> QED BY <1>4, <1>6 DEF e

(* It is never more than the true difference, if that is not negative.     *)
LEMMA ElapsedAtMost ==
  ASSUME NEW now \in Int, NEW stamp \in Int, stamp <= now
  PROVE  Elapsed(now, stamp) <= now - stamp
  <1>1. now - stamp \in Nat
    OBVIOUS
  <1>2. \A d \in Nat : d % WordSize <= d
    BY Numbers
  <1> QED BY <1>1, <1>2, ElapsedIsMod
-----------------------------------------------------------------------------
(* When the loop compares next, if it is in time; the round it is in may   *)
(* still take all of RoundLag before it sleeps.                            *)
NextCompare == time + timer + IF pc = "sleep" THEN RoundLag ELSE 0

(* No reading is older than what its round may take, and the packet of a   *)
(* ping, or of a new session, is not older when the ping is stamped.       *)
Prompt ==
  /\ pc = "compare" => time + timer <= read + RoundLag
  /\ pc = "stamp" /\ link # "down" => time + timer <= heard + RoundLag

(* The next comparison comes soon after the last packet, whatever the      *)
(* timestamp.                                                              *)
SoonAfterPacket == NextCompare <= heard + Slack

(* The clock had the value of the timestamp at the time base.              *)
Reads(base) == base % WordSize = stamped % WordSize

(* The next comparison comes before the difference to such a time can      *)
(* wrap, and in time.                                                      *)
SoonAfterStamp(base) ==
  /\ Reads(base)
  /\ base <= heard + Slack
  /\ NextCompare <= base + HalfKeepAlive + Period

(* What keeps the broker hearing.                                          *)
InTime ==
  link = "up" /\ ~overdue /\ pc # "stuck" =>
    SoonAfterPacket \/ \E base \in Int : SoonAfterStamp(base)

(* What keeps the pings apart: an old ping is not younger than the         *)
(* timestamp, and a timestamp is only younger than the reading it is       *)
(* compared with if it was written after it.                               *)
StampedSince ==
  /\ pc \in {"ping", "stamp"} => pinged = read
  /\ pc \notin {"ping", "stamp", "stuck"} => pinged <= stamped
  /\ pc = "compare" /\ ~raced => stamped <= read

(* The inductive invariant.                                                *)
Inv == TypeOK /\ Prompt /\ InTime /\ StampedSince

(* Initially there is no session.                                          *)
LEMMA InitInv == Init => Inv
  <1> SUFFICES ASSUME Init PROVE Inv
    OBVIOUS
  <1> USE Numbers DEF Init
  <1>1. TypeOK
    <2>1. timer \in 0 .. (IF pc = "sleep" THEN LoopPeriod ELSE RoundLag)
      OBVIOUS
    <2>2. /\ time \in Nat /\ read \in 0 .. time /\ stamped \in 0 .. time /\ heard \in 0 .. time
          /\ pinged \in {-WordSize} \cup 0 .. time
      OBVIOUS
    <2>3. /\ pc \in Places /\ link \in {"down", "announcing", "up"}
          /\ statusUpdateNeeded \in BOOLEAN /\ overdue \in BOOLEAN /\ raced \in BOOLEAN
      BY DEF Places
    <2> QED BY <2>1, <2>2, <2>3 DEF TypeOK
  <1>2. Prompt /\ InTime
    BY DEF Prompt, InTime
  <1>3. StampedSince
    BY DEF StampedSince
  <1> QED BY <1>1, <1>2, <1>3 DEF Inv

(* The times a step leaves behind are times not later than now.            *)
LEMMA NextTimes ==
  ASSUME TypeOK, [Next]_vars
  PROVE  /\ time' \in Nat
         /\ read' \in 0 .. time' /\ stamped' \in 0 .. time' /\ heard' \in 0 .. time'
         /\ pinged' \in {-WordSize} \cup 0 .. time'
  <1> USE Numbers
  <1> USE DEF TypeOK, loopVars, sentVars, PacketSent
  <1>1. CASE UNCHANGED vars
    BY <1>1 DEF vars
  <1>2. CASE Tick
    BY <1>2 DEF Tick
  <1>3. CASE Loop
    BY <1>3 DEF Loop, CheckOnline, ExecuteStatus, StatusReturns, ClearStatus, ReadClock,
                Compare, Sleep, ExecutePing, PingRefused, StampPing, Wake
  <1>4. CASE CallSends \/ CallReturns \/ SessionUp \/ OnlineCallback \/ SessionLost
    BY <1>4 DEF CallSends, CallReturns, Refresh, SessionUp, OnlineCallback, SessionLost
  <1> QED BY <1>1, <1>2, <1>3, <1>4 DEF Next

(* So does the timer, which never exceeds what it was set to.              *)
LEMMA NextTimer ==
  ASSUME TypeOK, [Next]_vars
  PROVE  /\ pc' \in Places
         /\ timer' \in 0 .. (IF pc' = "sleep" THEN LoopPeriod ELSE RoundLag)
  <1> USE Numbers
  <1> USE DEF TypeOK, Places, loopVars
  <1>1. CASE UNCHANGED vars
    BY <1>1 DEF vars
  <1>2. CASE Tick
    BY <1>2 DEF Tick, Blocked
  <1>3. CASE CheckOnline \/ ExecuteStatus \/ StatusReturns \/ ClearStatus \/ ReadClock
    BY <1>3 DEF CheckOnline, Sleep, ExecuteStatus, StatusReturns, ClearStatus, ReadClock
  <1>4. CASE Compare \/ ExecutePing \/ PingRefused
    BY <1>4 DEF Compare, Sleep, ExecutePing, PingRefused
  <1>5. CASE StampPing \/ Wake
    BY <1>5 DEF StampPing, Sleep, Wake
  <1>6. CASE CallSends \/ CallReturns \/ SessionUp
    BY <1>6 DEF CallSends, CallReturns, SessionUp
  <1>7. CASE OnlineCallback
    <2>1. pc' = pc /\ timer' \in {timer, RoundLag} /\ (pc = "sleep" => timer' = timer)
      BY <1>7 DEF OnlineCallback
    <2> QED BY <2>1
  <1>8. CASE SessionLost
    <2>1. timer' = timer /\ (pc' = pc \/ (pc # "sleep" /\ pc' \in {"clear", "stamp", "stuck"}))
      BY <1>8 DEF SessionLost
    <2> QED BY <2>1
  <1> QED BY <1>1, <1>2, <1>3, <1>4, <1>5, <1>6, <1>7, <1>8 DEF Next, Loop

(* Every step keeps the variables in their types.                          *)
LEMMA NextTypeOK ==
  ASSUME TypeOK, [Next]_vars
  PROVE  TypeOK'
  <1>1. link' \in {"down", "announcing", "up"}
    BY DEF TypeOK, vars, Next, Loop, Tick, CheckOnline, ExecuteStatus, StatusReturns, ClearStatus,
           ReadClock, Compare, ExecutePing, PingRefused, StampPing, Wake, CallSends, CallReturns,
           SessionUp, OnlineCallback, SessionLost, sessionVars
  <1>2. statusUpdateNeeded' \in BOOLEAN
    BY DEF TypeOK, vars, Next, Loop, Tick, CheckOnline, ExecuteStatus, StatusReturns, ClearStatus,
           ReadClock, Compare, ExecutePing, PingRefused, StampPing, Wake, CallSends, CallReturns,
           SessionUp, OnlineCallback, SessionLost, sessionVars
  <1>3. overdue' \in BOOLEAN
    <2>1. CASE Tick \/ CallReturns \/ OnlineCallback
      <3> DEFINE late == time > heard + Slack
                 held == time' + timer > heard + Slack
      <3>1. late \in BOOLEAN /\ held \in BOOLEAN
        OBVIOUS
      <3>2. overdue' \in {late, overdue \/ (pc = "confirm" /\ held)}
        BY <2>1 DEF Tick, CallReturns, OnlineCallback, Refresh
      <3> HIDE DEF late, held
      <3> QED BY <3>1, <3>2, Zenon DEF TypeOK
    <2>2. CASE ExecuteStatus \/ ExecutePing \/ CallSends \/ SessionUp
      BY <2>2 DEF ExecuteStatus, ExecutePing, CallSends, SessionUp, PacketSent
    <2>3. CASE \/ CheckOnline \/ StatusReturns \/ ClearStatus \/ ReadClock \/ Compare
               \/ PingRefused \/ StampPing \/ Wake \/ SessionLost \/ UNCHANGED vars
      <3>1. overdue' = overdue
        BY <2>3 DEF CheckOnline, StatusReturns, ClearStatus, ReadClock, Compare, PingRefused,
                    StampPing, Wake, SessionLost, sentVars, vars
      <3> QED BY <3>1 DEF TypeOK
    <2> QED BY <2>1, <2>2, <2>3 DEF Next, Loop
  <1>4. raced' \in BOOLEAN
    BY DEF TypeOK, vars, Next, Loop, Tick, CheckOnline, ExecuteStatus, StatusReturns, ClearStatus,
           ReadClock, Compare, ExecutePing, PingRefused, StampPing, Wake, CallSends, CallReturns,
           SessionUp, OnlineCallback, SessionLost,
           Sleep, Refresh, loopVars
  <1> QED BY <1>1, <1>2, <1>3, <1>4, NextTimes, NextTimer DEF TypeOK

(* Every step is prompt.                                                   *)
LEMMA NextPrompt ==
  ASSUME TypeOK, Prompt, [Next]_vars
  PROVE  Prompt'
  <1> USE Numbers DEF TypeOK, Prompt, loopVars, sessionVars, sentVars, PacketSent
  <1>1. CASE UNCHANGED vars
    BY <1>1 DEF vars
  <1>2. CASE Tick
    BY <1>2 DEF Tick, Blocked
  <1>3. CASE CheckOnline
    BY <1>3 DEF CheckOnline, Sleep
  <1>4. CASE ExecuteStatus \/ StatusReturns \/ ClearStatus \/ ReadClock
    BY <1>4 DEF ExecuteStatus, StatusReturns, ClearStatus, ReadClock
  <1>5. CASE Compare
    BY <1>5 DEF Compare, Sleep
  <1>6. CASE ExecutePing \/ PingRefused
    BY <1>6 DEF ExecutePing, PingRefused
  <1>7. CASE StampPing \/ Wake
    BY <1>7 DEF StampPing, Sleep, Wake
  <1>8. CASE CallSends \/ SessionUp
    BY <1>8 DEF CallSends, SessionUp
  <1>9. CASE CallReturns \/ OnlineCallback
    BY <1>9 DEF CallReturns, OnlineCallback, Refresh
  <1>10. CASE SessionLost
    BY <1>10 DEF SessionLost
  <1> QED BY <1>1, <1>2, <1>3, <1>4, <1>5, <1>6, <1>7, <1>8, <1>9, <1>10
          DEF Next, Loop

(* Every step keeps the pings apart.                                       *)
LEMMA NextStampedSince ==
  ASSUME TypeOK, StampedSince, [Next]_vars
  PROVE  StampedSince'
  <1> USE Numbers DEF TypeOK, StampedSince, loopVars
  <1>1. CASE UNCHANGED vars
    BY <1>1 DEF vars
  <1>2. CASE Tick
    BY <1>2 DEF Tick, Blocked
  <1>3. CASE CheckOnline
    BY <1>3 DEF CheckOnline, Sleep
  <1>4. CASE ExecuteStatus \/ StatusReturns \/ ClearStatus \/ ReadClock
    BY <1>4 DEF ExecuteStatus, StatusReturns, ClearStatus, ReadClock
  <1>5. CASE Compare
    BY <1>5 DEF Compare, Sleep
  <1>6. CASE ExecutePing \/ PingRefused
    BY <1>6 DEF ExecutePing, PingRefused
  <1>7. CASE StampPing \/ Wake
    BY <1>7 DEF StampPing, Sleep, Wake
  <1>8. CASE CallSends \/ SessionUp
    BY <1>8 DEF CallSends, SessionUp
  <1>9. CASE CallReturns \/ OnlineCallback
    <2>1. pc' = pc /\ read' = read /\ pinged' = pinged /\ stamped' = time
      BY <1>9 DEF CallReturns, OnlineCallback, Refresh
    <2>2. pc = "compare" => raced'
      BY <1>9 DEF CallReturns, OnlineCallback, Refresh
    <2> QED BY <2>1, <2>2
  <1>10. CASE SessionLost
    BY <1>10 DEF SessionLost
  <1> QED BY <1>1, <1>2, <1>3, <1>4, <1>5, <1>6, <1>7, <1>8, <1>9, <1>10
          DEF Next, Loop

(* What the assumptions leave.                                             *)
LEMMA Room ==
  /\ HalfKeepAlive \in Nat /\ Period \in Nat /\ Slack \in Nat
  /\ Period <= Slack
  /\ Slack + Period = HalfKeepAlive
  BY Numbers, FastEnough DEF Period, Slack

(* What a round takes, when it sleeps and when it does not.                *)
LEMMA Rounds ==
  /\ RoundLag \in Nat /\ LoopPeriod \in Nat
  /\ Period \in Nat
  /\ Period = LoopPeriod + RoundLag + RoundLag
  BY Numbers DEF Period

(* A timestamp of now, as numbers: the time is t, the last packet was sent *)
(* at h and the next comparison is at n.                                   *)
LEMMA FreshStamp ==
  ASSUME NEW t \in Int, NEW h \in Int, NEW n \in Int,
         t <= h + Slack, n <= t + Period
  PROVE  t <= h + Slack /\ n <= t + HalfKeepAlive + Period
  BY Room

(* The next comparison when the timer is r, as numbers.                    *)
LEMMA RoundFits ==
  ASSUME NEW t \in Int, NEW r \in Nat
  PROVE  /\ r <= LoopPeriod => t + r + RoundLag <= t + Period /\ t + r + RoundLag \in Int
         /\ r <= RoundLag => t + r + 0 <= t + Period /\ t + r + 0 \in Int
  BY Rounds

(* A period fits into the slack, as numbers.                               *)
LEMMA PeriodFits ==
  ASSUME NEW h \in Int, NEW n \in Int, n <= h + Period
  PROVE  n <= h + Slack
  BY Room

(* An earlier comparison and a later packet, as numbers.                   *)
LEMMA EarlierAndLater ==
  ASSUME NEW n \in Int, NEW n1 \in Int, NEW h \in Int, NEW h1 \in Int, NEW b \in Int,
         n1 <= n, h <= h1
  PROVE  /\ n <= h + Slack => n1 <= h1 + Slack
         /\ b <= h + Slack => b <= h1 + Slack
         /\ n <= b + HalfKeepAlive + Period => n1 <= b + HalfKeepAlive + Period
  BY Room

(* A round that is not held up compares within a period.                   *)
LEMMA WithinPeriod ==
  ASSUME TypeOK'
  PROVE  /\ time' \in Int /\ heard' \in Int
         /\ NextCompare' <= time' + Period /\ NextCompare' \in Int
  <1>1. time' \in Int /\ heard' \in Int /\ timer' \in Nat
    BY Numbers DEF TypeOK
  <1>2. timer' <= IF pc' = "sleep" THEN LoopPeriod ELSE RoundLag
    BY Numbers DEF TypeOK
  <1>3. CASE pc' = "sleep"
    BY <1>1, <1>2, <1>3, RoundFits DEF NextCompare
  <1>4. CASE pc' # "sleep"
    BY <1>1, <1>2, <1>4, RoundFits DEF NextCompare
  <1> QED BY <1>1, <1>3, <1>4

(* A call that returns soon enough after the last packet, and the online   *)
(* callback, start the time anew.                                          *)
LEMMA StampNow ==
  ASSUME TypeOK', stamped' = time', time' <= heard' + Slack
  PROVE  \E base \in Int : SoonAfterStamp(base)'
  <1>1. ASSUME NEW base \in Int, base = time' PROVE SoonAfterStamp(base)'
    <2>1. Reads(base)'
      BY <1>1 DEF Reads
    <2>2. base <= heard' + Slack /\ NextCompare' <= base + HalfKeepAlive + Period
      BY <1>1, WithinPeriod, FreshStamp
    <2> QED BY <2>1, <2>2 DEF SoonAfterStamp
  <1> QED BY <1>1, WithinPeriod

(* So does a packet, whatever the timestamp.                               *)
LEMMA SentNow ==
  ASSUME TypeOK', heard' = time'
  PROVE  SoonAfterPacket'
  BY WithinPeriod, Room DEF SoonAfterPacket

(* A step of the loop that neither sends nor stamps takes none of the time *)
(* that is left, and a packet sent only gives more.                        *)
LEMMA TimeLeft ==
  ASSUME TypeOK, TypeOK', InTime, link = "up", ~overdue, pc # "stuck",
         NextCompare' <= NextCompare, heard <= heard', stamped' = stamped
  PROVE  InTime'
  <1>1. /\ heard \in Int /\ NextCompare \in Int
        /\ heard' \in Int /\ NextCompare' \in Int
    <2>1. heard \in Int /\ NextCompare \in Int
      BY Numbers DEF TypeOK, NextCompare
    <2>2. heard' \in Int /\ NextCompare' \in Int
      BY Numbers DEF TypeOK, NextCompare
    <2> QED BY <2>1, <2>2
  <1>2. CASE SoonAfterPacket
    <2>1. SoonAfterPacket'
      BY <1>1, <1>2, EarlierAndLater DEF SoonAfterPacket
    <2> QED BY <2>1 DEF InTime
  <1>3. CASE \E base \in Int : SoonAfterStamp(base)
    <2>1. PICK base \in Int : SoonAfterStamp(base)
      BY <1>3
    <2>2. Reads(base)'
      BY <2>1 DEF SoonAfterStamp, Reads
    <2>3. /\ base <= heard' + Slack
          /\ NextCompare' <= base + HalfKeepAlive + Period
      BY <1>1, <2>1, EarlierAndLater DEF SoonAfterStamp
    <2>4. SoonAfterStamp(base)'
      BY <2>2, <2>3 DEF SoonAfterStamp
    <2> QED BY <2>4 DEF InTime
  <1> QED BY <1>2, <1>3 DEF InTime

(* The comparison: without a ping the difference is at most half the       *)
(* keep-alive time, whether or not the clock or the timestamp wrapped.     *)
LEMMA CompareInTime ==
  ASSUME Inv, Compare, link = "up", ~overdue, pc' # "ping"
  PROVE  \E base \in Int : SoonAfterStamp(base)'
  <1> USE Numbers, Room
  <1> DEFINE e == Elapsed(read, stamped)
  <1>1. /\ pc = "compare" /\ ~(e > HalfKeepAlive)
        /\ pc' = "sleep" /\ timer' = LoopPeriod
        /\ UNCHANGED <<time, stamped, heard>>
    BY DEF Compare, Sleep, sentVars
  <1>2. /\ time \in Nat /\ read \in 0 .. time /\ stamped \in 0 .. time /\ heard \in 0 .. time
        /\ timer \in 0 .. RoundLag
        /\ time + timer <= read + RoundLag
    BY <1>1 DEF Inv, TypeOK, Prompt
  <1>3. PICK base \in Int : /\ Reads(base)
                            /\ base <= heard + Slack
                            /\ read <= base + HalfKeepAlive
    <2>1. read \in Int /\ stamped \in Int
      BY <1>2
    <2>2. e \in 0 .. WordSize - 1 /\ Reads(read - e)
      BY <2>1, BaseOfElapsed DEF Reads
    <2>3. CASE SoonAfterPacket
      <3>1. time + timer <= heard + Slack
        BY <1>1, <1>2, <2>3 DEF SoonAfterPacket, NextCompare
      <3> HIDE DEF e
      <3>2. /\ read - e \in Int
            /\ read - e <= heard + Slack
            /\ read <= (read - e) + HalfKeepAlive
        BY <1>1, <1>2, <2>2, <3>1
      <3> QED BY <2>2, <3>2
    <2>4. CASE \E base \in Int : SoonAfterStamp(base)
      <3>1. PICK base \in Int : SoonAfterStamp(base)
        BY <2>4
      <3>2. /\ Reads(base)
            /\ base <= heard + Slack
            /\ time + timer <= base + HalfKeepAlive + Period
        BY <1>1, <1>2, <3>1 DEF SoonAfterStamp, NextCompare
      <3>3. CASE read >= base
        <4>1. read - base \in 0 .. WordSize - 1
          BY <1>2, <3>2, <3>3
        <4>2. e = read - base
          BY <2>1, <3>2, <4>1, ElapsedSince DEF Reads
        <4> HIDE DEF e
        <4>3. read <= base + HalfKeepAlive
          BY <1>1, <2>1, <4>2
        <4> QED BY <3>2, <4>3
      <3>4. CASE read < base
        BY <2>1, <3>2, <3>4
      <3> QED BY <2>1, <3>3, <3>4
    <2> QED BY <1>1, <2>3, <2>4 DEF Inv, InTime
  <1>4. Reads(base)'
    BY <1>1, <1>3 DEF Reads
  <1>5. time + LoopPeriod + RoundLag <= base + HalfKeepAlive + Period
    BY <1>2, <1>3, Rounds
  <1> QED BY <1>1, <1>2, <1>3, <1>4, <1>5 DEF SoonAfterStamp, NextCompare

(* Every step leaves the next comparison in time.                          *)
LEMMA NextInTime ==
  ASSUME Inv, [Next]_vars
  PROVE  InTime'
  <1>0. TypeOK /\ TypeOK' /\ Prompt /\ InTime
    BY NextTypeOK DEF Inv
  <1> SUFFICES ASSUME link' = "up", ~overdue', pc' # "stuck" PROVE InTime'
    BY DEF InTime
  <1>1. CASE UNCHANGED vars
    BY <1>0, <1>1 DEF vars, InTime, SoonAfterPacket, SoonAfterStamp, Reads, NextCompare
  <1>2. CASE Tick
    <2>1. /\ pc' = pc /\ time' = time + 1 /\ UNCHANGED <<stamped, link, heard>>
          /\ ~overdue /\ link = "up" /\ pc # "stuck"
      BY <1>2 DEF Tick, sessionVars
    <2>2. CASE pc = "confirm"
      <3>1. timer' = timer /\ ~(time' + timer > heard + Slack)
        BY <1>2, <2>2 DEF Tick, Blocked
      <3>2. SoonAfterPacket'
        BY <1>0, <2>1, <2>2, <3>1, Numbers, Room DEF SoonAfterPacket, NextCompare, TypeOK
      <3> QED BY <3>2 DEF InTime
    <2>3. CASE pc # "confirm"
      <3>1. timer' = timer - 1
        BY <1>2, <2>1, <2>3 DEF Tick, Blocked
      <3>2. NextCompare' <= NextCompare
        BY <1>0, <2>1, <3>1, Numbers DEF NextCompare, TypeOK
      <3> QED BY <1>0, <2>1, <3>2, TimeLeft DEF TypeOK
    <2> QED BY <2>2, <2>3
  <1>3. CASE CheckOnline \/ StatusReturns \/ ClearStatus \/ ReadClock
    <2>1. /\ pc \notin {"sleep", "stuck"} /\ pc' # "sleep"
          /\ UNCHANGED <<time, timer, stamped, link, heard, overdue>>
      BY <1>3 DEF CheckOnline, StatusReturns, ClearStatus, ReadClock, sessionVars, sentVars
    <2>2. NextCompare' <= NextCompare
      BY <1>0, <2>1, Numbers DEF NextCompare, TypeOK
    <2> QED BY <1>0, <2>1, <2>2, TimeLeft DEF TypeOK
  <1>4. CASE ExecuteStatus \/ ExecutePing \/ CallSends
    <2>1. heard' = time'
      BY <1>4 DEF ExecuteStatus, ExecutePing, CallSends, PacketSent
    <2>2. SoonAfterPacket'
      BY <1>0, <2>1, SentNow
    <2> QED BY <2>2 DEF InTime
  <1>5. CASE Compare
    <2>1. /\ pc = "compare" /\ UNCHANGED <<time, stamped, link, heard, overdue>>
          /\ pc' = "ping" => timer' = timer
      BY <1>5 DEF Compare, Sleep, sessionVars, sentVars
    <2>2. CASE pc' = "ping"
      <3>1. NextCompare' <= NextCompare
        BY <1>0, <2>1, <2>2, Numbers DEF NextCompare, TypeOK
      <3> QED BY <1>0, <2>1, <3>1, TimeLeft DEF TypeOK
    <2> QED BY <1>5, <2>1, <2>2, CompareInTime DEF InTime
  <1>6. CASE PingRefused
    BY <1>6 DEF PingRefused
  <1>7. CASE StampPing
    <2>1. /\ pc = "stamp" /\ pc' = "sleep" /\ timer' = LoopPeriod
          /\ UNCHANGED <<time, link, heard>>
      BY <1>7 DEF StampPing, Sleep, sessionVars, sentVars
    <2>2. time + timer <= heard + RoundLag
      BY <1>0, <2>1 DEF Prompt
    <2>3. NextCompare' <= heard' + Period
      BY <1>0, <2>1, <2>2, Numbers, Rounds DEF NextCompare, TypeOK
    <2>4. heard' \in Int /\ NextCompare' \in Int
      BY <1>0, <2>1, Numbers DEF NextCompare, TypeOK
    <2>5. SoonAfterPacket'
      BY <2>3, <2>4, PeriodFits DEF SoonAfterPacket
    <2> QED BY <2>5 DEF InTime
  <1>8. CASE Wake
    <2>1. /\ pc = "sleep" /\ timer = 0 /\ pc' = "check" /\ timer' = RoundLag
          /\ UNCHANGED <<time, stamped, link, heard, overdue>>
      BY <1>8 DEF Wake, sessionVars, sentVars
    <2>2. NextCompare' <= NextCompare
      BY <1>0, <2>1, Numbers DEF NextCompare, TypeOK
    <2> QED BY <1>0, <2>1, <2>2, TimeLeft DEF TypeOK
  <1>9. CASE CallReturns \/ OnlineCallback
    <2>1. /\ time' = time /\ stamped' = time' /\ heard' = heard
          /\ ~(time > heard + Slack)
      BY <1>9 DEF CallReturns, OnlineCallback, Refresh
    <2>2. time' <= heard' + Slack
      BY <1>0, <2>1, Room DEF TypeOK
    <2>3. \E base \in Int : SoonAfterStamp(base)'
      BY <1>0, <2>1, <2>2, StampNow
    <2> QED BY <2>3 DEF InTime
  <1>10. CASE SessionUp \/ SessionLost
    BY <1>10 DEF SessionUp, SessionLost
  <1> QED BY <1>1, <1>2, <1>3, <1>4, <1>5, <1>6, <1>7, <1>8, <1>9, <1>10
          DEF Next, Loop

(* The invariant is inductive.                                             *)
LEMMA NextInv == Inv /\ [Next]_vars => Inv'
  <1> SUFFICES ASSUME Inv, [Next]_vars PROVE Inv'
    OBVIOUS
  <1> QED BY NextTypeOK, NextPrompt, NextInTime, NextStampedSince DEF Inv

(* The inductive invariant holds in every reachable state.                 *)
THEOREM Invariance == Spec => []Inv
  BY InitInv, NextInv, PTL DEF Spec

(* Every variable keeps its type, through any number of wraps.             *)
THEOREM TypeCorrect == Spec => []TypeOK
  <1>1. Inv => TypeOK
    BY DEF Inv
  <1> QED BY <1>1, Invariance, PTL

(* The broker is never left without a packet for longer than it was        *)
(* promised, however long acknowledgements take, or outages: unless since  *)
(* the last packet a call returned, or kept the loop waiting, after more   *)
(* than Slack, or the loop is stuck in a call of its own.                  *)
THEOREM BrokerHearsInTime == Spec => []BrokerHears
  <1>1. Inv => BrokerHears
    <2> SUFFICES ASSUME Inv, link = "up", ~overdue, pc # "stuck"
                 PROVE  time <= heard + KeepAliveTime
      BY DEF BrokerHears
    <2>1. TypeOK
      BY DEF Inv
    <2>2. CASE SoonAfterPacket
      BY <2>1, <2>2, Numbers, Room DEF SoonAfterPacket, NextCompare, TypeOK, KeepAliveTime
    <2>3. CASE \E base \in Int : SoonAfterStamp(base)
      <3>1. PICK base \in Int : SoonAfterStamp(base)
        BY <2>3
      <3> QED BY <2>1, <3>1, Numbers, Room DEF SoonAfterStamp, NextCompare, TypeOK, KeepAliveTime
    <2> QED BY <2>2, <2>3 DEF Inv, InTime
  <1> QED BY <1>1, Invariance, PTL

(* Two pings are decided more than half the keep-alive time apart, unless  *)
(* a call writes its timestamp between the loop's reading of the clock and *)
(* its comparison.                                                         *)
THEOREM PingsApart == Spec => PingsSpaced
  <1>1. Inv /\ [Next]_vars =>
          [pc = "compare" /\ pc' = "ping" => raced \/ read > pinged + HalfKeepAlive]_vars
    <2> SUFFICES ASSUME Inv, Next, pc = "compare", pc' = "ping", ~raced
                 PROVE  read > pinged + HalfKeepAlive
      OBVIOUS
    <2>1. Compare
      BY DEF Next, Tick, Loop, CheckOnline, ExecuteStatus, StatusReturns, ClearStatus,
             ReadClock, ExecutePing, PingRefused, StampPing, Wake, CallSends, CallReturns,
             SessionUp, OnlineCallback, SessionLost, loopVars
    <2>2. Elapsed(read, stamped) > HalfKeepAlive
      BY <2>1 DEF Compare, Sleep
    <2>3. /\ read \in Int /\ stamped \in Int /\ stamped <= read
          /\ pinged \in Int /\ pinged <= stamped
      BY Numbers DEF Inv, TypeOK, StampedSince
    <2>4. Elapsed(read, stamped) <= read - stamped /\ Elapsed(read, stamped) \in Int
      BY <2>3, ElapsedAtMost, BaseOfElapsed
    <2> HIDE DEF Elapsed
    <2> QED BY <2>2, <2>3, <2>4, Numbers
  <1> QED BY <1>1, Invariance, PTL DEF Spec, PingsSpaced
=============================================================================
