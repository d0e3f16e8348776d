------------------------- MODULE OracleClientProofs -------------------------
(***************************************************************************)
(* What the oracle's clients can rely on: the keeper, that by coming in    *)
(* time it keeps every average available, for any sources and windows,     *)
(* whoever else records and however often; and a reader of its prices,     *)
(* that the pages have all of them.                                        *)
(***************************************************************************)
EXTENDS Keeper, OracleQueries, OracleProofs

\* How often the keeper must come.  Without a tolerance a window is one second
\* wide, and there must be a snapshot of every second; otherwise the tolerance
\* and two seconds more suffice.
Punctual ==
    \A d \in DOMAIN Sources :
        Interval <= IF Sources[d].tolerance = 0 THEN 1 ELSE Sources[d].tolerance + 2

\* The seconds in which a snapshot can be used.
Width(source) == 2 * source.tolerance + 1

\* A snapshot is followed by one that enters the window no later than it leaves
\* it, unless there is still time for the keeper to add that one.
Follows(list, width, next) ==
    \A i \in 1 .. Len(list) :
        \/ \E j \in 1 .. Len(list) :
              /\ list[i].timestamp < list[j].timestamp
              /\ list[j].timestamp - list[i].timestamp <= width
        \/ next - list[i].timestamp <= width

SourcesSet ==
    \A d \in DOMAIN Sources : d \in DOMAIN price_sources /\ price_sources[d] = Sources[d]

SnapshotsFollow ==
    \A d \in DOMAIN Sources : Follows(ListOf(d), Width(Sources[d]), due)

KeeperInv ==
    /\ OracleSound
    /\ due \in Nat /\ now <= due /\ due <= now + Interval
    /\ SourcesSet
    /\ SnapshotsFollow

-----------------------------------------------------------------------------
(***************************************************************************)
(* The beginning                                                           *)
(***************************************************************************)

LEMMA KeeperInitInv == KeeperInit => KeeperInv
  <1> SUFFICES ASSUME KeeperInit PROVE KeeperInv
    OBVIOUS
  <1>1. role \in Role
    BY DEF KeeperInit, InitialRole, Role
  <1>2. base_denom \in Denom
    BY OracleAssumption DEF KeeperInit
  <1> DEFINE fixed == [type |-> "fixed", price |-> One]
  <1>3. fixed \in PriceSource /\ fixed.type = "fixed"
    BY OneAssumption DEF PriceSource, Decimal
  <1>4. \A d \in DOMAIN Sources :
            /\ d \in Denom /\ Sources[d] \in PriceSource /\ Sources[d].type = "astroport_twap"
            /\ Sources[d] \in TwapInputs(d)
    <2> SUFFICES ASSUME NEW d \in DOMAIN Sources
                 PROVE  /\ d \in Denom /\ Sources[d] \in PriceSource
                        /\ Sources[d].type = "astroport_twap" /\ Sources[d] \in TwapInputs(d)
      OBVIOUS
    <2> DEFINE input == <<d, Sources[d]>>
    <2>1. input \in SourceInput /\ Sources[d].type = "astroport_twap"
      BY KeeperAssumption
    <2>2. input \in Denom \X PriceSource
      BY <2>1, OracleAssumption
    <2>3. input[1] = d /\ input[2] = Sources[d]
      OBVIOUS
    <2>4. Sources[d] \in TwapInputs(d)
      BY <2>1, <2>3 DEF TwapInputs
    <2> QED
      BY <2>1, <2>2, <2>4
  <1>5. \A d \in DOMAIN Sources : d # base_denom /\ ValidSource(d, Sources[d])
    BY DEF KeeperInit, ValidSource
  <1>6. /\ DOMAIN price_sources = DOMAIN Sources \cup {base_denom}
        /\ price_sources[base_denom] = fixed
        /\ \A d \in DOMAIN Sources : price_sources[d] = Sources[d]
    BY <1>5 DEF KeeperInit
  <1>7. price_sources \in [DOMAIN Sources \cup {base_denom} -> PriceSource]
    BY <1>3, <1>4 DEF KeeperInit
  <1> HIDE DEF fixed
  <1>8. IsMap(price_sources, Denom, PriceSource)
    BY <1>2, <1>4, <1>6, <1>7 DEF IsMap
  <1>9. SourcesValid
    <2> SUFFICES ASSUME NEW d \in DOMAIN price_sources
                 PROVE  LET source == price_sources[d]
                        IN  /\ source.type \in {"astroport_spot", "astroport_twap"}
                                  => PairPrices(source.pair, d)
                            /\ source.type = "astroport_twap" =>
                                  source.tolerance < source.window_size /\ source \in TwapInputs(d)
      BY DEF SourcesValid
    <2>1. CASE d \in DOMAIN Sources
      BY <1>4, <1>5, <1>6, <2>1 DEF ValidSource, ValidPair
    <2>2. CASE d = base_denom
      BY <1>3, <1>6, <2>2
    <2> QED
      BY <1>6, <2>1, <2>2
  <1>10. ListsTyped /\ ListsOrdered
    BY DEF KeeperInit, EmptyMap, ListsTyped, ListsOrdered
  <1>11. swap \in [Side -> Nat]
    <2>1. swap \in [Side -> UNION {Return[k] : k \in Side}] /\ \A k \in Side : swap[k] \in Return[k]
      BY DEF KeeperInit
    <2>2. \A k \in Side : swap[k] \in Nat
      BY <2>1, OracleAssumption
    <2> QED
      BY <2>1, <2>2
  <1>12. cumulative \in [Side -> 0 .. MaxCumulative]
    BY OracleAssumption DEF KeeperInit
  <1>13. now = 0 /\ due \in Nat /\ now <= due /\ due <= now + Interval
    BY KeeperAssumption DEF KeeperInit
  <1>14. OracleSound
    BY <1>1, <1>2, <1>8, <1>9, <1>10, <1>11, <1>12, <1>13 DEF OracleSound
  <1>15. SnapshotsFollow
    <2> SUFFICES ASSUME NEW d \in DOMAIN Sources
                 PROVE  Follows(ListOf(d), Width(Sources[d]), due)
      BY DEF SnapshotsFollow
    <2>1. ListOf(d) = <<>>
      BY DEF KeeperInit, EmptyMap, ListOf, LoadOr
    <2> QED
      BY <2>1 DEF Follows
  <1> QED
    BY <1>6, <1>13, <1>14, <1>15 DEF KeeperInv, SourcesSet

-----------------------------------------------------------------------------
(***************************************************************************)
(* Time                                                                    *)
(***************************************************************************)

\* When a snapshot leaves the window, the one that follows it is in there.
LEMMA NextEnters ==
    ASSUME NEW t \in Nat, NEW u \in Nat, NEW time \in Nat, NEW window \in Nat, NEW tolerance \in Nat,
           tolerance < window, u <= time,
           t < u, u - t <= 2 * tolerance + 1,
           time - t = window + tolerance
    PROVE  AbsDiff(AbsDiff(time + 1, u), window) <= tolerance
  <1>1. AbsDiff(time + 1, u) = time + 1 - u
    BY DEF AbsDiff
  <1>2. time + 1 - u >= window - tolerance /\ time + 1 - u <= window + tolerance
    OBVIOUS
  <1> DEFINE age == time + 1 - u
  <1>3. age \in Nat
    OBVIOUS
  <1> HIDE DEF age
  <1>4. AbsDiff(age, window) <= tolerance
    <2>1. age >= window - tolerance /\ age <= window + tolerance
      BY <1>2 DEF age
    <2> QED
      BY <1>3, <2>1 DEF AbsDiff
  <1> QED
    BY <1>1, <1>4 DEF age

LEMMA StaysOrExpires ==
    ASSUME NEW t \in Nat, NEW time \in Nat, NEW window \in Nat, NEW tolerance \in Nat,
           tolerance < window, t <= time,
           AbsDiff(AbsDiff(time, t), window) <= tolerance
    PROVE  \/ AbsDiff(AbsDiff(time + 1, t), window) <= tolerance
           \/ time - t = window + tolerance
  <1> DEFINE age == time - t
  <1>1. age \in Nat /\ AbsDiff(time, t) = age /\ AbsDiff(time + 1, t) = age + 1
    BY DEF AbsDiff
  <1> HIDE DEF age
  <1>2. AbsDiff(age, window) <= tolerance
    BY <1>1
  <1>3. AbsDiff(age + 1, window) <= tolerance \/ age = window + tolerance
    BY <1>1, <1>2 DEF AbsDiff
  <1> QED
    BY <1>1, <1>3 DEF age

LEMMA KeeperTwap ==
    ASSUME KeeperInv, NEW d \in DOMAIN Sources
    PROVE  /\ HasTwap(d) /\ price_sources[d] = Sources[d]
           /\ Sources[d].window_size \in Nat /\ Sources[d].tolerance \in Nat
           /\ Sources[d].tolerance < Sources[d].window_size
  <1>1. HasTwap(d) /\ price_sources[d] = Sources[d]
    BY KeeperAssumption DEF KeeperInv, SourcesSet, HasTwap
  <1> QED
    BY <1>1, TwapDenom DEF KeeperInv

\* An average that can be told is told from at least two snapshots.
LEMMA AvailableIs ==
    ASSUME NEW d
    PROVE  Available(d) <=> /\ d \in DOMAIN snapshots
                            /\ Len(ListOf(d)) >= 2
                            /\ Usable(ListOf(d), Sources[d]) # {}
  BY DEF Available, TwapAvailable, ListOf, LoadOr

LEMMA TimeKeepsAvailable ==
    ASSUME KeeperInv, TimePasses, NEW d \in DOMAIN Sources, Available(d)
    PROVE  Available(d)'
  <1> DEFINE list == snapshots[d]
             source == Sources[d]
             window == source.window_size
             tolerance == source.tolerance
  <1>1. d \in DOMAIN snapshots /\ Len(list) >= 2 /\ Usable(list, source) # {} /\ list = ListOf(d)
    BY DEF Available, TwapAvailable, ListOf, LoadOr
  <1>2. /\ window \in Nat /\ tolerance \in Nat /\ tolerance < window
        /\ now \in Nat /\ due \in Nat /\ now < due
    BY KeeperTwap DEF KeeperInv, OracleSound, TimePasses
  <1>3. list \in Seq(Snapshot) /\ Past(list, now)
    BY <1>1, ListOfTyped DEF KeeperInv
  <1>4. now' = now + 1 /\ snapshots' = snapshots
    BY DEF TimePasses, Tick, contract
  <1>5. Follows(list, Width(source), due)
    BY <1>1 DEF KeeperInv, SnapshotsFollow
  <1> SUFFICES \E j \in DOMAIN list :
                    AbsDiff(AbsDiff(now + 1, list[j].timestamp), window) <= tolerance
    BY <1>1, <1>4 DEF Available, TwapAvailable, Usable, WithinWindow
  <1>6. PICK i \in DOMAIN list : AbsDiff(AbsDiff(now, list[i].timestamp), window) <= tolerance
    BY <1>1 DEF Usable, WithinWindow
  <1>7. \A k \in 1 .. Len(list) : list[k].timestamp \in Nat /\ list[k].timestamp <= now
    <2> HIDE DEF list
    <2> QED
      BY <1>3, SnapshotFields DEF Past
  <1>8. DOMAIN list = 1 .. Len(list)
    BY <1>3
  <1> HIDE DEF list
  <1>9. CASE AbsDiff(AbsDiff(now + 1, list[i].timestamp), window) <= tolerance
    BY <1>9, <1>6
  <1>10. CASE now - list[i].timestamp = window + tolerance
    <2>1. list[i].timestamp \in Nat /\ list[i].timestamp <= now
      BY <1>6, <1>7, <1>8
    <2>2. Width(source) = 2 * tolerance + 1
      BY DEF Width
    <2> HIDE DEF window, tolerance, source
    <2>3. ~(due - list[i].timestamp <= Width(source))
      <3> DEFINE t == list[i].timestamp
      <3>1. t \in Nat /\ now - t = window + tolerance
        BY <1>10, <2>1
      <3> HIDE DEF t
      <3> QED
        BY <1>2, <2>2, <3>1 DEF t
    <2>4. PICK j \in 1 .. Len(list) :
                    /\ list[i].timestamp < list[j].timestamp
                    /\ list[j].timestamp - list[i].timestamp <= Width(source)
      BY <1>5, <1>6, <1>8, <2>3 DEF Follows
    <2>5. list[j].timestamp \in Nat /\ list[j].timestamp <= now
      BY <1>7
    <2>6. AbsDiff(AbsDiff(now + 1, list[j].timestamp), window) <= tolerance
      <3> DEFINE t == list[i].timestamp
                 u == list[j].timestamp
      <3>1. /\ t \in Nat /\ u \in Nat /\ u <= now /\ t < u /\ u - t <= 2 * tolerance + 1
            /\ now - t = window + tolerance
        BY <1>10, <2>1, <2>2, <2>4, <2>5
      <3> HIDE DEF t, u
      <3>2. AbsDiff(AbsDiff(now + 1, u), window) <= tolerance
        BY <1>2, <3>1, NextEnters
      <3> QED
        BY <3>2 DEF u
    <2> QED
      BY <1>8, <2>6
  <1>11. \/ AbsDiff(AbsDiff(now + 1, list[i].timestamp), window) <= tolerance
         \/ now - list[i].timestamp = window + tolerance
    <2>1. list[i].timestamp \in Nat /\ list[i].timestamp <= now
      BY <1>6, <1>7, <1>8
    <2> HIDE DEF window, tolerance, source
    <2> QED
      BY <1>2, <1>6, <2>1, StaysOrExpires
  <1> QED
    BY <1>9, <1>10, <1>11

-----------------------------------------------------------------------------
(***************************************************************************)
(* Recording                                                               *)
(***************************************************************************)

LEMMA RecordingKeepsAvailable ==
    ASSUME KeeperInv, NEW denoms, RecordTwapSnapshots(denoms), NEW d \in DOMAIN Sources, Available(d)
    PROVE  Available(d)'
  <1>1. HasTwap(d) /\ price_sources[d] = Sources[d] /\ OracleSound
    BY KeeperTwap DEF KeeperInv
  <1>2. d \in DOMAIN snapshots' /\ now' = now
    BY RecordSteps DEF Available, TwapAvailable
  <1>3. /\ d \in DOMAIN snapshots /\ ListOf(d) = snapshots[d]
        /\ Len(ListOf(d)) >= 2 /\ Usable(ListOf(d), Sources[d]) # {}
    BY DEF Available, TwapAvailable, ListOf, LoadOr
  <1>4. Len(snapshots'[d]) >= 2 /\ Usable(snapshots'[d], Sources[d]) # {}
    <2>1. CASE d \in denoms
      BY <1>1, <1>3, <2>1, RecordedKeepsPrevious, RecordSteps
    <2>2. CASE d \notin denoms
      BY <1>2, <1>3, <2>2, RecordSteps
    <2> QED
      BY <2>1, <2>2
  <1> QED
    BY <1>2, <1>4 DEF Available, TwapAvailable, Usable, WithinWindow

-----------------------------------------------------------------------------
(***************************************************************************)
(* The invariant                                                           *)
(***************************************************************************)

\* A list to which the snapshot of this second was added, with next as the
\* keeper's next run: before, that was the same or it was now.
LEMMA AppendedFollows ==
    ASSUME NEW list \in Seq(Snapshot), NEW time \in Nat, Past(list, time),
           NEW width \in Nat, NEW before \in Nat, NEW next \in Nat,
           before = next \/ before = time,
           time <= next, next - time <= width,
           Follows(list, width, before),
           NEW kept \in SUBSET (1 .. Len(list)),
           \A i \in kept, j \in 1 .. Len(list) :
                list[i].timestamp < list[j].timestamp => j \in kept,
           NEW r \in Seq(Snapshot), NEW pos, Selects(list, kept, Len(list), r, pos),
           NEW s \in Snapshot, s.timestamp = time
    PROVE  Follows(Append(r, s), width, next)
  <1> DEFINE l == Append(r, s)
  <1>1. Len(r) \in Nat /\ Len(l) = Len(r) + 1 /\ Len(l) \in Nat
        /\ (\A j \in 1 .. Len(r) : l[j] = r[j]) /\ l[Len(r) + 1] = s
    OBVIOUS
  <1>2. \A k \in 1 .. Len(r) : pos[k] \in kept /\ r[k] = list[pos[k]]
    BY DEF Selects
  <1>3. \A k \in 1 .. Len(list) : list[k].timestamp \in Nat /\ list[k].timestamp <= time
    BY SnapshotFields DEF Past
  <1>4. \A k \in kept : \E i \in 1 .. Len(r) : pos[i] = k
    <2>1. \A k \in kept : k <= Len(list)
      OBVIOUS
    <2> QED
      BY <2>1 DEF Selects
  <1> HIDE DEF l
  <1> SUFFICES ASSUME NEW i \in 1 .. Len(l), ~(next - l[i].timestamp <= width)
               PROVE  \E j \in 1 .. Len(l) :
                        /\ l[i].timestamp < l[j].timestamp
                        /\ l[j].timestamp - l[i].timestamp <= width
    BY DEF Follows, l
  <1>5. i \in 1 .. Len(r)
    BY <1>1
  <1> DEFINE k == pos[i]
  <1>6. k \in kept /\ l[i] = list[k] /\ k \in 1 .. Len(list)
    BY <1>1, <1>2, <1>5
  <1> HIDE DEF k
  <1> DEFINE t == list[k].timestamp
  <1>7. t \in Nat /\ t <= time /\ l[i].timestamp = t
    BY <1>3, <1>6
  <1>8. CASE \E j \in 1 .. Len(list) : t < list[j].timestamp /\ list[j].timestamp - t <= width
    <2>1. PICK j \in 1 .. Len(list) : t < list[j].timestamp /\ list[j].timestamp - t <= width
      BY <1>8
    <2>2. j \in kept
      BY <1>6, <2>1
    <2>3. PICK m \in 1 .. Len(r) : pos[m] = j
      BY <1>4, <2>2
    <2>4. l[m] = list[j] /\ m \in 1 .. Len(l)
      BY <1>1, <1>2, <2>3
    <2> QED
      BY <1>7, <2>1, <2>4
  <1>9. CASE before - t <= width
    <2>1. before = time
      BY <1>7, <1>9
    <2>2. t < time /\ time - t <= width
      <3> HIDE DEF t
      <3> QED
        BY <1>7, <1>9, <2>1
    <2>3. Len(r) + 1 \in 1 .. Len(l) /\ l[Len(r) + 1].timestamp = time
      BY <1>1
    <2> QED
      BY <1>7, <2>2, <2>3
  <1> QED
    BY <1>6, <1>8, <1>9 DEF Follows

\* A list whose last snapshot was too recent for another.
LEMMA SkippedFollows ==
    ASSUME NEW list \in Seq(Snapshot), NEW time \in Nat, Past(list, time), Ordered(list),
           NEW tolerance \in Nat, list # <<>> => time - list[Len(list)].timestamp < tolerance,
           NEW next \in Nat, next - time <= tolerance + 2,
           Follows(list, 2 * tolerance + 1, time)
    PROVE  Follows(list, 2 * tolerance + 1, next)
  <1> DEFINE width == 2 * tolerance + 1
             n == Len(list)
             last == list[n].timestamp
  <1> SUFFICES ASSUME NEW i \in 1 .. n,
                      ~ \E j \in 1 .. n : /\ list[i].timestamp < list[j].timestamp
                                          /\ list[j].timestamp - list[i].timestamp <= width
               PROVE  next - list[i].timestamp <= width
    BY DEF Follows
  <1>1. n \in Nat /\ n \in 1 .. n /\ list # <<>>
    <2>1. n \in Nat
      OBVIOUS
    <2> QED
      BY <2>1
  <1>2. time - list[i].timestamp <= width
    BY DEF Follows
  <1>3. \A k \in 1 .. n : list[k].timestamp \in Nat /\ list[k].timestamp <= time
    BY SnapshotFields DEF Past
  <1>4. list[i].timestamp <= last /\ time - last < tolerance
    BY <1>1 DEF Ordered
  <1> HIDE DEF n
  <1> DEFINE t == list[i].timestamp
  <1>5. t \in Nat /\ t <= time /\ last \in Nat /\ last <= time
    BY <1>1, <1>3
  <1>6. ~(t < last /\ last - t <= width)
    BY <1>1
  <1> HIDE DEF t, last
  <1>7. t = last
    BY <1>2, <1>4, <1>5, <1>6 DEF t
  <1>8. next - t <= width
    BY <1>4, <1>5, <1>7
  <1> QED
    BY <1>8 DEF t

LEMMA PunctualInterval ==
    ASSUME Punctual, KeeperInv, NEW d \in DOMAIN Sources
    PROVE  /\ Interval \in Nat /\ Interval <= Width(Sources[d])
           /\ Width(Sources[d]) = 2 * Sources[d].tolerance + 1
           /\ Sources[d].tolerance > 0 => Interval <= Sources[d].tolerance + 2
  BY KeeperTwap, KeeperAssumption DEF Punctual, Width

\* The keeper and the others record alike; only that the keeper then has its
\* whole interval again.
LEMMA RecordedFollows ==
    ASSUME Punctual, KeeperInv, NEW d \in DOMAIN Sources,
           NEW next \in Nat, next = due \/ (now = due /\ next = now + Interval)
    PROVE  Follows(Recorded(d), Width(Sources[d]), next)
  <1> DEFINE list == ListOf(d)
             source == Sources[d]
  <1> SUFFICES Follows(Recorded(d), Width(source), next)
    OBVIOUS
  <1>1. HasTwap(d) /\ price_sources[d] = source /\ OracleSound /\ source.tolerance \in Nat
    BY KeeperTwap DEF KeeperInv
  <1>2. list \in Seq(Snapshot) /\ Ordered(list) /\ Past(list, now)
    BY <1>1, ListOfTyped
  <1>3. now \in Nat /\ due \in Nat /\ now <= due /\ due <= now + Interval
    BY DEF KeeperInv, OracleSound
  <1>4. Follows(list, Width(source), due)
    BY DEF KeeperInv, SnapshotsFollow
  <1>5. /\ Interval \in Nat /\ Interval <= Width(source) /\ Width(source) = 2 * source.tolerance + 1
        /\ source.tolerance > 0 => Interval <= source.tolerance + 2
    BY PunctualInterval
  <1>6. CASE TooSoon(list, source)
    <2>1. Recorded(d) = list
      BY <1>1, <1>6, RecordedIs
    <2>2. CASE next = due
      BY <1>4, <2>1, <2>2
    <2>3. CASE now = due /\ next = now + Interval
      <3>1. list # <<>> /\ now - list[Len(list)].timestamp < source.tolerance
        BY <1>6 DEF TooSoon
      <3> HIDE DEF list, source
      <3>2. Len(list) \in 1 .. Len(list)
        BY <1>2, <3>1
      <3>3. list[Len(list)].timestamp \in Nat /\ list[Len(list)].timestamp <= now
        BY <1>2, <3>2, SnapshotFields DEF Past
      <3>4. source.tolerance > 0
        BY <1>1, <1>3, <3>1, <3>3
      <3>5. next - now <= source.tolerance + 2
        BY <1>3, <1>5, <2>3, <3>4
      <3>6. Follows(list, 2 * source.tolerance + 1, now)
        BY <1>4, <1>5, <2>3
      <3>7. Follows(list, 2 * source.tolerance + 1, next)
        BY <1>1, <1>2, <1>3, <3>1, <3>5, <3>6, SkippedFollows
      <3> QED
        BY <1>5, <2>1, <3>7
    <2> QED
      BY <2>2, <2>3
  <1>7. CASE ~TooSoon(list, source)
    <2> DEFINE kept == RecentEnough(list, source)
               s == SnapshotNow(d)
    <2>1. PICK r, pos :
                  /\ r \in Seq(Snapshot)
                  /\ Selects(list, kept, Len(list), r, pos)
                  /\ Recorded(d) = Append(r, s)
      BY <1>1, <1>7, RecordedIs
    <2>2. kept \in SUBSET (1 .. Len(list))
      BY <1>1, RecentIndexes
    <2>3. s \in Snapshot /\ s.timestamp = now
      BY <1>1, SnapshotNowTyped
    <2>4. \A i \in kept, j \in 1 .. Len(list) :
                list[i].timestamp < list[j].timestamp => j \in kept
      <3> SUFFICES ASSUME NEW i \in kept, NEW j \in 1 .. Len(list),
                          list[i].timestamp < list[j].timestamp
                   PROVE  j \in kept
        OBVIOUS
      <3>1. now - list[i].timestamp <= source.window_size + source.tolerance
            /\ i \in 1 .. Len(list)
        BY <2>2 DEF RecentEnough
      <3>2. source.window_size \in Nat
        BY KeeperTwap
      <3> DEFINE l == list
                 w == source.window_size + source.tolerance
      <3>3. w \in Nat
        BY <1>1, <3>2
      <3>4. l[i].timestamp \in Nat /\ l[j].timestamp \in Nat
        <4> HIDE DEF list
        <4> QED
          BY <1>2, <3>1, SnapshotFields
      <3>5. now - l[j].timestamp <= w
        <4>1. now - l[i].timestamp <= w /\ l[i].timestamp < l[j].timestamp
          BY <3>1
        <4> HIDE DEF l, w
        <4> QED
          BY <1>3, <3>3, <3>4, <4>1
      <3>6. j \in DOMAIN list
        BY <1>2
      <3> QED
        BY <3>5, <3>6 DEF RecentEnough
    <2>5. Width(source) \in Nat
      BY <1>1, <1>5
    <2>6. next - now <= Width(source) /\ now <= next
      <3> HIDE DEF list, source, kept, s
      <3> QED
        BY <1>3, <1>5, <2>5
    <2>7. due = next \/ due = now
      OBVIOUS
    <2> HIDE DEF list, source, kept, s
    <2> QED
      BY <1>2, <1>3, <1>4, <2>1, <2>2, <2>3, <2>4, <2>5, <2>6, <2>7, AppendedFollows
  <1> QED
    BY <1>6, <1>7

LEMMA RecordingFollows ==
    ASSUME Punctual, KeeperInv, NEW denoms, RecordTwapSnapshots(denoms),
           \/ due' = due
           \/ denoms = DOMAIN Sources /\ now = due /\ due' = now + Interval
    PROVE  SnapshotsFollow'
  <1> SUFFICES ASSUME NEW d \in DOMAIN Sources
               PROVE  Follows(ListOf(d)', Width(Sources[d]), due')
    BY DEF SnapshotsFollow, Follows
  <1>1. due' \in Nat /\ (due' = due \/ (now = due /\ due' = now + Interval))
    BY KeeperAssumption DEF KeeperInv, OracleSound
  <1>2. CASE d \in denoms
    <2>1. ListOf(d)' = Recorded(d)
      BY <1>2, RecordSteps DEF ListOf, LoadOr
    <2> QED
      BY <1>1, <2>1, RecordedFollows
  <1>3. CASE d \notin denoms
    <2>1. ListOf(d)' = ListOf(d) /\ due' = due
      BY <1>3, RecordSteps DEF ListOf, LoadOr
    <2> QED
      BY <2>1 DEF KeeperInv, SnapshotsFollow
  <1> QED
    BY <1>2, <1>3

LEMMA KeeperStepInv ==
    ASSUME Punctual, KeeperInv, [KeeperNext]_keeperVars
    PROVE  KeeperInv'
  <1>1. now \in Nat /\ due \in Nat /\ Interval \in Nat /\ OracleSound
    BY KeeperAssumption DEF KeeperInv, OracleSound
  <1>2. CASE KeeperRuns
    <2>1. RecordTwapSnapshots(DOMAIN Sources) /\ now = due /\ due' = now + Interval
      BY <1>2 DEF KeeperRuns
    <2>2. OracleSound' /\ SnapshotsFollow'
      BY <1>1, <2>1, RecordSound, RecordingFollows
    <2>3. now' = now /\ price_sources' = price_sources
      BY <2>1, RecordSteps
    <2> QED
      BY <1>1, <2>1, <2>2, <2>3 DEF KeeperInv, SourcesSet
  <1>3. CASE TimePasses
    <2>1. now < due /\ Tick(1) /\ due' = due
      BY <1>3 DEF TimePasses
    <2>2. OracleSound'
      BY <1>1, <2>1, TickSound
    <2>3. now' = now + 1 /\ UNCHANGED <<price_sources, snapshots>>
      BY <2>1 DEF Tick, contract
    <2>4. SnapshotsFollow'
      BY <2>1, <2>3 DEF KeeperInv, SnapshotsFollow, Follows, ListOf, LoadOr
    <2> QED
      BY <1>1, <2>1, <2>2, <2>3, <2>4 DEF KeeperInv, SourcesSet
  <1>4. CASE OthersRecord
    <2>1. PICK denoms \in RecordInput : RecordTwapSnapshots(denoms) /\ due' = due
      BY <1>4 DEF OthersRecord
    <2>2. OracleSound' /\ SnapshotsFollow'
      BY <1>1, <2>1, RecordSound, RecordingFollows
    <2>3. now' = now /\ price_sources' = price_sources
      BY <2>1, RecordSteps
    <2> QED
      BY <1>1, <2>1, <2>2, <2>3 DEF KeeperInv, SourcesSet
  <1>5. CASE UNCHANGED keeperVars
    <2>1. UNCHANGED oracleVars /\ due' = due
      BY <1>5 DEF keeperVars
    <2>2. OracleSound'
      BY <1>1, <2>1, NextOracleSound
    <2>3. UNCHANGED <<price_sources, snapshots, now>>
      BY <2>1 DEF oracleVars, contract, market
    <2> QED
      BY <2>1, <2>2, <2>3 DEF KeeperInv, SourcesSet, SnapshotsFollow, Follows, ListOf, LoadOr
  <1> QED
    BY <1>2, <1>3, <1>4, <1>5 DEF KeeperNext

-----------------------------------------------------------------------------

\* The average of a denom, once it can be told, can be told from then on: when
\* its last usable snapshot leaves the window, another has entered it.  That
\* holds for any sources whose keeper is punctual, and whatever the others
\* record between its runs.
THEOREM PunctualKeepsAvailable == Punctual /\ KeeperSpec => TwapStaysAvailable
  <1> SUFFICES ASSUME Punctual PROVE KeeperSpec => TwapStaysAvailable
    OBVIOUS
  <1>1. KeeperInv /\ [KeeperNext]_keeperVars => KeeperInv'
    BY KeeperStepInv
  <1>2. KeeperInv /\ [KeeperNext]_keeperVars =>
            [\A d \in DOMAIN Sources : Available(d) => Available(d)']_keeperVars
    <2> SUFFICES ASSUME KeeperInv, KeeperNext, NEW d \in DOMAIN Sources, Available(d)
                 PROVE  Available(d)'
      OBVIOUS
    <2>1. CASE KeeperRuns
      BY <2>1, RecordingKeepsAvailable DEF KeeperRuns
    <2>2. CASE TimePasses
      BY <2>2, TimeKeepsAvailable
    <2>3. CASE OthersRecord
      BY <2>3, RecordingKeepsAvailable DEF OthersRecord
    <2> QED
      BY <2>1, <2>2, <2>3 DEF KeeperNext
  <1> QED
    BY <1>1, <1>2, KeeperInitInv, PTL DEF KeeperSpec, TwapStaysAvailable

-----------------------------------------------------------------------------
(***************************************************************************)
(* Enumerating prices                                                      *)
(***************************************************************************)

\* What is proved of pages, whatever map they are pages of.
AnyPages == INSTANCE PagingProofs WITH
    Key <- {}, LimitInput <- {}, entries <- {},
    last <- 0, answers <- <<>>, finished <- FALSE, steady <- {}

PricedKeys == {DenomKey[d] : d \in DOMAIN price_sources}

LEMMA PricedKeysFinite ==
    ASSUME OracleSound
    PROVE  /\ DOMAIN price_sources \subseteq Denom /\ IsFiniteSet(DOMAIN price_sources)
           /\ PricedKeys \in SUBSET (Nat \ {0}) /\ IsFiniteSet(PricedKeys)
  <1>1. DOMAIN price_sources \subseteq Denom
    BY DEF OracleSound, IsMap
  <1>2. IsFiniteSet(DOMAIN price_sources)
    BY <1>1, DenomAssumption, FS_Subset
  <1>3. IsFiniteSet(PricedKeys)
    <2> DEFINE D == DOMAIN price_sources
               keyed == [d \in D |-> DenomKey[d]]
    <2>1. keyed \in Surjection(D, PricedKeys)
      BY DEF Surjection, PricedKeys
    <2> QED
      BY <1>2, <2>1, FS_Surjection DEF ExistsSurjection
  <1>4. PricedKeys \in SUBSET (Nat \ {0})
    BY <1>1, DenomKeyAssumption DEF PricedKeys
  <1> QED
    BY <1>1, <1>2, <1>3, <1>4

\* A page asked for without a limit exists, and is not empty if a key is left.
LEMMA PageIsPage ==
    ASSUME OracleSound, NEW start \in Nat
    PROVE  /\ IsPage(Page(PricedKeys, start, NoLimit), PricedKeys, start, NoLimit)
           /\ Page(PricedKeys, start, NoLimit) = {} => Rest(PricedKeys, start) = {}
  <1>1. PageSize(NoLimit) \in Nat \ {0}
    BY LimitAssumption DEF PageSize
  <1>2. PricedKeys \in SUBSET Nat /\ IsFiniteSet(PricedKeys)
    BY PricedKeysFinite
  <1>3. AnyPages!PageSize(NoLimit) = PageSize(NoLimit)
    BY DEF AnyPages!PageSize, PageSize
  <1>4. AnyPages!IsFiniteSet(PricedKeys)
    BY <1>2 DEF AnyPages!IsFiniteSet, IsFiniteSet
  <1>5. \A page : AnyPages!IsPage(page, PricedKeys, start, NoLimit)
                    <=> IsPage(page, PricedKeys, start, NoLimit)
    BY <1>3 DEF AnyPages!IsPage, IsPage, AnyPages!Rest, Rest, AnyPages!Cardinality, Cardinality
  <1>6. AnyPages!LimitAssumption
    BY LimitAssumption DEF LimitAssumption, AnyPages!LimitAssumption
  <1>7. \E page \in SUBSET PricedKeys : IsPage(page, PricedKeys, start, NoLimit)
    BY <1>1, <1>2, <1>3, <1>4, <1>5, <1>6, AnyPages!PageExists
  <1>8. IsPage(Page(PricedKeys, start, NoLimit), PricedKeys, start, NoLimit)
    BY <1>7 DEF Page
  <1>9. Cardinality({}) = 0
    BY FS_EmptySet
  <1> QED
    BY <1>1, <1>8, <1>9 DEF IsPage

\* Who asks for the page after the denom that comes before it finds a denom.
LEMMA OnTheNextPage ==
    ASSUME OracleSound, NEW d \in DOMAIN price_sources
    PROVE  \E start_after \in DOMAIN price_sources \cup {None} :
                d \in PageOf(DOMAIN price_sources, DenomKey,
                             IF start_after = None THEN 0 ELSE DenomKey[start_after], NoLimit)
  <1> DEFINE D == DOMAIN price_sources
             key == DenomKey[d]
             before == {k \in PricedKeys : k < key}
             page(start) == Page(PricedKeys, start, NoLimit)
  <1>1. D \subseteq Denom /\ PricedKeys \in SUBSET (Nat \ {0}) /\ IsFiniteSet(PricedKeys)
    BY PricedKeysFinite
  <1>2. key \in PricedKeys /\ key \in Nat /\ key > 0
    BY <1>1 DEF PricedKeys
  <1>3. ASSUME NEW start \in Nat, start < key, \A k \in PricedKeys : k > start => k >= key
        PROVE  key \in page(start)
    <2>1. key \in Rest(PricedKeys, start)
      BY <1>2, <1>3 DEF Rest
    <2>2. /\ IsPage(page(start), PricedKeys, start, NoLimit)
          /\ page(start) # {}
      BY <2>1, PageIsPage
    <2>3. PICK k \in page(start) : TRUE
      BY <2>2
    <2>4. k \in PricedKeys /\ k > start
      BY <2>2, <2>3 DEF IsPage, Rest
    <2>5. k >= key /\ k \in Nat
      BY <1>1, <1>3, <2>4
    <2> SUFFICES ASSUME key \notin page(start) PROVE FALSE
      OBVIOUS
    <2>6. k < key
      BY <2>1, <2>2, <2>3 DEF IsPage
    <2> QED
      BY <1>2, <2>5, <2>6
  <1>4. ASSUME NEW start \in Nat, key \in page(start) PROVE d \in PageOf(D, DenomKey, start, NoLimit)
    BY <1>4 DEF PageOf, PricedKeys
  <1>5. CASE before = {}
    <2>1. key \in page(0)
      BY <1>1, <1>2, <1>3, <1>5
    <2> QED
      BY <1>4, <2>1
  <1>6. CASE before # {}
    <2>1. before \in SUBSET Nat /\ IsFiniteSet(before)
      BY <1>1, FS_Subset
    <2>2. PICK start \in before : \A k \in before : start >= k
      BY <1>6, <2>1, FiniteHasMax
    <2>3. start \in Nat /\ start < key /\ start \in PricedKeys
      BY <2>1, <2>2
    <2>4. \A k \in PricedKeys : k > start => k >= key
      BY <1>1, <1>2, <2>1, <2>2
    <2>5. key \in page(start)
      BY <1>3, <2>3, <2>4
    <2>6. PICK e \in D : DenomKey[e] = start
      BY <2>3 DEF PricedKeys
    <2>7. e # None
      BY <1>1, DenomKeyAssumption
    <2> QED
      BY <1>4, <2>3, <2>5, <2>6, <2>7
  <1> QED
    BY <1>5, <1>6

\* What a denom costs when no source can fail.
NoSourceFails == \A d \in DOMAIN price_sources : price_sources[d].type \in {"fixed", "astroport_spot"}

IsOne(prices) == \E price : prices = {price}

LEMMA ConvertedIsOne ==
    ASSUME NEW prices, NEW others, IsOne(prices), IsOne(others)
    PROVE  IsOne(Converted(prices, others))
  BY DEF IsOne, Converted

LEMMA StepIsOne ==
    ASSUME OracleSound, NoSourceFails, NEW n \in Nat, NEW m \in Nat, n <= m, m + 1 <= Links,
           \A e \in ResolvedWithin[n] : IsOne(PriceWithin[m][e]),
           NEW d \in ResolvedWithin[n + 1]
    PROVE  IsOne(PriceWithin[m + 1][d])
  <1>1. Links \in Nat /\ n + 1 <= Links /\ m + 1 \in 0 .. Links /\ m + 1 # 0 /\ (m + 1) - 1 = m
    BY DenomsCounted DEF Links
  <1>2. /\ d \in DOMAIN price_sources
        /\ ReadsThrough(d, price_sources[d]) \subseteq ResolvedWithin[n]
    BY <1>1, OneMoreLink
  <1>3. /\ d \in Denom /\ price_sources[d].type \in {"fixed", "astroport_spot"}
    BY <1>2, SourceTypes DEF NoSourceFails
  <1>4. PriceWithin[m + 1][d] = PriceStep(PriceWithin, m + 1, d)
    BY <1>1, <1>3, SoundPricesFollow DEF PricesFollow, Links
  <1>5. CASE price_sources[d].type = "fixed"
    <2>1. PriceWithin[m + 1][d] = {price_sources[d].price}
      BY <1>1, <1>2, <1>4, <1>5 DEF PriceStep
    <2> QED
      BY <2>1 DEF IsOne
  <1>6. CASE price_sources[d].type = "astroport_spot"
    <2> DEFINE pair == price_sources[d].pair
               spot == SpotPrices(d, pair)
               other == OtherDenom(pair, d)
    <2>1. PriceWithin[m + 1][d] = PairPriced(PriceWithin, m + 1, d, spot)
      BY <1>1, <1>2, <1>4, <1>6 DEF PriceStep
    <2>2. IsOne(spot)
      BY DEF SpotPrices, IsOne
    <2>3. CASE ReadsThrough(d, price_sources[d]) = {}
      BY <2>1, <2>2, <2>3 DEF PairPriced
    <2>4. CASE ReadsThrough(d, price_sources[d]) # {}
      <3>1. ReadsThrough(d, price_sources[d]) = {other}
        BY <1>6, <2>4 DEF ReadsThrough
      <3>2. IsOne(PriceWithin[m][other])
        BY <1>2, <3>1
      <3>3. PriceWithin[m + 1][d] = Converted(spot, PriceWithin[m][other])
        BY <1>1, <2>1, <2>4 DEF PairPriced
      <3> HIDE DEF spot, other
      <3> QED
        BY <2>2, <3>2, <3>3, ConvertedIsOne
    <2> QED
      BY <2>3, <2>4
  <1> QED
    BY <1>3, <1>5, <1>6

LEMMA ResolvedCostOne ==
    ASSUME OracleSound, NoSourceFails
    PROVE  \A d \in ResolvedWithin[Links] : IsOne(Price(d))
  <1> DEFINE Told(n) == \A m \in n .. Links : \A d \in ResolvedWithin[n] : IsOne(PriceWithin[m][d])
             T == {n \in Nat : n <= Links => Told(n)}
  <1>0. Links \in Nat
    BY DenomsCounted DEF Links
  <1>1. 0 \in T
    BY NoneResolvesWithoutLinks
  <1>2. ASSUME NEW n \in Nat, n \in T PROVE n + 1 \in T
    <2> SUFFICES ASSUME n + 1 <= Links, NEW m \in n + 1 .. Links, NEW d \in ResolvedWithin[n + 1]
                 PROVE  IsOne(PriceWithin[m][d])
      OBVIOUS
    <2>1. m - 1 \in Nat /\ n <= m - 1 /\ (m - 1) + 1 = m /\ m <= Links /\ m - 1 \in n .. Links
      BY <1>0
    <2>2. Told(n)
      BY <1>0, <1>2
    <2>3. \A e \in ResolvedWithin[n] : IsOne(PriceWithin[m - 1][e])
      BY <2>1, <2>2
    <2>4. IsOne(PriceWithin[(m - 1) + 1][d])
      BY <2>1, <2>3, StepIsOne
    <2> QED
      BY <2>1, <2>4
  <1> HIDE DEF T
  <1>3. Links \in T
    BY <1>0, <1>1, <1>2, LeastCounterexample
  <1>4. Told(Links)
    BY <1>0, <1>3 DEF T
  <1> QED
    BY <1>0, <1>4 DEF Price, Links

LEMMA PricesEnumeratedHere == ASSUME OracleSound PROVE PricesEnumerated
  <1> DEFINE D == DOMAIN price_sources
  <1> SUFFICES ASSUME AllResolve, NoSourceFails, NEW d \in D
               PROVE  \E start_after \in D \cup {None} :
                        \E page \in QueryPrices(start_after, NoLimit) :
                            d \in DOMAIN page /\ Price(d) = {page[d]}
    BY DEF PricesEnumerated, NoSourceFails
  <1>1. \A e \in D : IsOne(Price(e))
    BY ResolvedCostOne DEF AllResolve, Links
  <1>2. PICK start_after \in D \cup {None} :
                d \in PageOf(D, DenomKey,
                             IF start_after = None THEN 0 ELSE DenomKey[start_after], NoLimit)
    BY OnTheNextPage
  <1> DEFINE items == PageOf(D, DenomKey,
                             IF start_after = None THEN 0 ELSE DenomKey[start_after], NoLimit)
             page == [e \in items |-> CHOOSE price \in Price(e) : TRUE]
  <1>3. items \subseteq D
    BY DEF PageOf
  <1>4. QueryPrices(start_after, NoLimit)
          = IF \E e \in items : Price(e) = {} THEN {} ELSE {page}
    BY DEF QueryPrices, Paged, Collected
  <1>5. \A e \in items : Price(e) # {}
    BY <1>1, <1>3 DEF IsOne
  <1>6. page \in QueryPrices(start_after, NoLimit)
    BY <1>4, <1>5
  <1>7. Price(d) = {page[d]} /\ d \in DOMAIN page
    <2>1. PICK price : Price(d) = {price}
      BY <1>1 DEF IsOne
    <2>2. page[d] = CHOOSE p \in Price(d) : TRUE
      BY <1>2
    <2> QED
      BY <1>2, <2>1, <2>2
  <1> QED
    BY <1>6, <1>7

\* For any denoms, chains of sources and page sizes, the pages of the query give
\* every denom its price, unless some source is one that can fail.
THEOREM PricesAlwaysEnumerated == HistorySpec => []PricesEnumerated
  <1>1. OracleSound => PricesEnumerated
    BY PricesEnumeratedHere
  <1> QED
    BY <1>1, HistoryIsOracle, OracleSoundAlways, PTL
=============================================================================
