---------------------------- MODULE MonitorPolicy ----------------------------
(***************************************************************************)
(* The sampling policies (src/monitor/monitor_policy.cpp): CONT_FOR raises *)
(* when a value stays above a threshold for a duration, TIMES_PER_PERIOD   *)
(* when it is above it a number of times within a period, SMOOTH_TRIM      *)
(* averages the last values and drops outliers. One policy of each kind is *)
(* fed the same samples; the time does not go back, as the contract in     *)
(* monitor_policy.h asks. The three policies never look at the history:    *)
(* it is kept here to say what they have to compute from it.               *)
(***************************************************************************)
EXTENDS Integers, Sequences, SequencesExt, FiniteSets

CONSTANTS
    Values,          \* sampled values
    Threshold,       \* of CONT_FOR and TIMES_PER_PERIOD
    Duration,        \* of CONT_FOR
    Count, Period,   \* of TIMES_PER_PERIOD
    Window, Trim,    \* of SMOOTH_TRIM
    MaxGap,          \* longest time between two samples
    MaxSamples       \* bound: samples fed

(* What the make_..._policy() functions accept. *)
ASSUME PolicyAssumption ==
    /\ Values \subseteq Nat /\ Threshold \in Nat /\ Trim \in Nat
    /\ Duration \in Nat /\ Period \in Nat /\ Count \in Nat \ {0} /\ Window \in Nat \ {0}
    /\ MaxGap \in Nat /\ MaxSamples \in Nat

VARIABLES
    cont,      \* ContForPolicy
    times,     \* TimesPerPeriodPolicy
    smooth,    \* SmoothTrimPolicy
    edge,      \* policy -> _noteworthy of the last result
    samples    \* history: all that was fed, [value, now]

policyVars == <<cont, times, smooth, edge, samples>>

PolicyInit ==
    /\ cont = [state |-> "IDLE", crossed_at |-> 0]
    /\ times = [events |-> [k \in 0..(Count - 1) |-> 0], event_count |-> 0, head |-> 0,
                alerting |-> FALSE]
    /\ smooth = [samples |-> [k \in 0..(Window - 1) |-> 0], sample_count |-> 0, head |-> 0,
                 sum |-> 0, average |-> 0]
    /\ edge = [p \in {"cont", "times", "smooth"} |-> FALSE]
    /\ samples = <<>>

-----------------------------------------------------------------------------
(* ContForPolicy::feed() *)
FeedContFor(value, now) ==
    CASE value <= Threshold -> [state |-> "IDLE", crossed_at |-> 0]
      [] value > Threshold /\ cont.state = "IDLE" -> [state |-> "PENDING", crossed_at |-> now]
      [] value > Threshold /\ cont.state = "PENDING"
            /\ now >= cont.crossed_at /\ now - cont.crossed_at >= Duration ->
            [cont EXCEPT !.state = "ACTIVE"]
      [] OTHER -> cont

(* Variant: the time of the last event but Count, already overwritten. *)
FeedTimes_Overwritten(value, now) ==
    LET next == (times.head + 1) % Count
        count == IF times.event_count < Count THEN times.event_count + 1 ELSE Count
        events == [times.events EXCEPT ![times.head] = now]
    IN  IF value <= Threshold THEN times
          ELSE [events |-> events, event_count |-> count, head |-> next,
                alerting |-> count = Count /\ now - times.events[times.head] <= Period]

(* TimesPerPeriodPolicy::feed(): after the write the head is at the oldest *)
(* event *)
FeedTimes(value, now) ==
    LET next == (times.head + 1) % Count
        count == IF times.event_count < Count THEN times.event_count + 1 ELSE Count
        events == [times.events EXCEPT ![times.head] = now]
    IN  IF value <= Threshold THEN times
          ELSE [events |-> events, event_count |-> count, head |-> next,
                alerting |-> count = Count /\ now >= events[next] /\ now - events[next] <= Period]

(* A value SMOOTH_TRIM refuses. *)
Outlier(value) ==
    /\ smooth.sample_count > 0
    /\ value - smooth.average > Trim \/ smooth.average - value > Trim

(* SmoothTrimPolicy::feed() of a value it accepts; a place not yet used    *)
(* holds zero *)
FeedSmooth(value) ==
    LET count == IF smooth.sample_count < Window THEN smooth.sample_count + 1 ELSE Window
        sum == smooth.sum - (IF smooth.sample_count < Window THEN 0 ELSE smooth.samples[smooth.head])
               + value
    IN  IF Outlier(value) THEN smooth
          ELSE [samples |-> [smooth.samples EXCEPT ![smooth.head] = value], sample_count |-> count,
                head |-> (smooth.head + 1) % Window, sum |-> sum, average |-> sum \div count]

(* The sampling callback feeds its policies. *)
Sample(value, gap) ==
    LET now == (IF samples = <<>> THEN 0 ELSE Last(samples).now) + gap
    IN  /\ Len(samples) < MaxSamples
        /\ samples' = Append(samples, [value |-> value, now |-> now])
        /\ cont' = FeedContFor(value, now)
        /\ times' = FeedTimes(value, now)
        /\ smooth' = FeedSmooth(value)
        /\ edge' = [cont |-> cont.state = "PENDING" /\ cont'.state = "ACTIVE",
                    times |-> ~times.alerting /\ times'.alerting,
                    smooth |-> smooth'.average # smooth.average]

PolicyNext == \E value \in Values, gap \in 0..MaxGap : Sample(value, gap)

PolicySpec == PolicyInit /\ [][PolicyNext]_policyVars

-----------------------------------------------------------------------------
(* What the policies stand for, from the whole history. *)
High(k) == samples[k].value > Threshold

(* The value has been high from some sample on, and a later one came at    *)
(* least Duration after it. *)
HeldHigh(n) ==
    \E k \in 1..(n - 1) :
        /\ \A m \in k..n : High(m)
        /\ samples[n].now - samples[k].now >= Duration

(* The last Count high samples lie within Period of each other. *)
Frequent(n) ==
    LET highs == {k \in 1..n : High(k)}
        recent == {k \in highs : Cardinality({m \in highs : m >= k}) <= Count}
    IN  /\ Cardinality(recent) = Count
        /\ \A k, m \in recent : samples[m].now - samples[k].now <= Period

Mean(values) ==
    LET recent == SubSeq(values, Len(values) - Window + 1, Len(values))
        used == IF Len(values) < Window THEN values ELSE recent
    IN  FoldSeq(+, 0, used) \div Len(used)

(* The values not dropped, in order. *)
Accepted ==
    FoldLeft(LAMBDA kept, s :
                 IF kept # <<>> /\ (s.value - Mean(kept) > Trim \/ Mean(kept) - s.value > Trim)
                   THEN kept ELSE Append(kept, s.value),
             <<>>, samples)

(* The policies keep a state, a ring of times, a ring of values with their *)
(* running sum; with these they report what the whole history says: an     *)
(* alarm exactly while it holds, its edge once, and the mean of the last   *)
(* accepted values, before the rings are full and after they have wrapped. *)
PolicyExact ==
    LET n == Len(samples)
    IN  n > 0 =>
        /\ (cont.state = "ACTIVE") = HeldHigh(n)
        /\ edge["cont"] = (HeldHigh(n) /\ ~HeldHigh(n - 1))
        /\ times.alerting = Frequent(n)
        /\ edge["times"] = (Frequent(n) /\ ~Frequent(n - 1))
        /\ smooth.average = Mean(Accepted)
=============================================================================
