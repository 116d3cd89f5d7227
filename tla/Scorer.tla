-------------------------------- MODULE Scorer --------------------------------
(***************************************************************************)
(* The metrics snapshot, its derived accessors (PerformanceMetrics, tcp   *)
(* 35-69, rudp 38-70) and the two scorers: evaluate_performance() of tcp  *)
(* (402-479, four axes of 25 points) and of rudp (345-408, three axes of  *)
(* 30/30/40 points), plus the connection success rate of the TCP report   *)
(* (print_results 354).                                                   *)
(*                                                                         *)
(* The state is a snapshot that the clients' records change one at a time *)
(* (recordSent, recordError, recordLatency, recordConnection).  Rates are *)
(* compared exactly by cross-multiplication; latencies are integers of    *)
(* ms.  total_score = score / max_score * 100 is exact at the grade bands *)
(* 60 and 80 for every reachable score (the scores are multiples of 5 out *)
(* of 100), so exact rationals give the code's grades.  elapsed is a      *)
(* constant number of seconds: the run ends before the report reads it.   *)
(***************************************************************************)
EXTENDS Integers, Sequences, SequencesExt

CONSTANTS
  TOTAL_PLAYERS,
  ELAPSED,         \* seconds from start_time to the report
  SentStart,       \* messages_sent values the snapshot may start from
  ErrorsStart,     \* errors values the snapshot may start from
  ConnStart,       \* connections values the snapshot may start from
  LatencyValues,   \* latency samples, in ms
  MaxEvents        \* bound: records applied after the start

ASSUME /\ TOTAL_PLAYERS \in Nat /\ ELAPSED \in Nat /\ MaxEvents \in Nat
       /\ SentStart \cup ErrorsStart \cup ConnStart \cup LatencyValues \subseteq Nat

VARIABLES messages_sent, errors, connections, connection_errors, latencies, events

vars == <<messages_sent, errors, connections, connection_errors, latencies, events>>

TypeOK ==
  /\ {messages_sent, errors, connections, connection_errors, events} \subseteq Nat
  /\ latencies \in Seq(LatencyValues)

Init ==
  /\ messages_sent \in SentStart
  /\ errors \in ErrorsStart
  /\ connections \in ConnStart
  /\ connection_errors = 0
  /\ latencies \in {<<>>} \cup {<<v>> : v \in LatencyValues}
  /\ events = 0

\* One record by a client: each raw counter only grows (spec §3, §4.1).
Record(sent, err, conn, connErr) ==
  /\ events < MaxEvents /\ events' = events + 1
  /\ messages_sent' = messages_sent + sent
  /\ errors' = errors + err
  /\ connections' = connections + conn
  /\ connection_errors' = connection_errors + connErr

RecordSent == Record(1, 0, 0, 0) /\ UNCHANGED latencies
RecordError == Record(0, 1, 0, 0) /\ UNCHANGED latencies
RecordConnection == Record(0, 0, 1, 0) /\ UNCHANGED latencies
RecordConnectionError == Record(0, 0, 0, 1) /\ UNCHANGED latencies
\* Fault variant of RecordLatency: the latency taken as
\* start_time - time.time(), i.e. negated.
RecordLatencyNegated(v) == Record(0, 0, 0, 0) /\ latencies' = Append(latencies, -v)
RecordLatency(v) == Record(0, 0, 0, 0) /\ latencies' = Append(latencies, v)

\* The run has ended and the report reads the snapshot.
Reported == events = MaxEvents /\ UNCHANGED vars

Next ==
  \/ RecordSent \/ RecordError \/ RecordConnection \/ RecordConnectionError
  \/ \E v \in LatencyValues : RecordLatency(v)
  \/ Reported

Spec == Init /\ [][Next]_vars

(***************************************************************************)
(* Accessors.  A rate r is compared with a threshold n/d exactly.         *)
(***************************************************************************)
AtLeastOne(x) == IF x >= 1 THEN x ELSE 1                 \* max(1, x)
LatencySum == FoldLeft(LAMBDA a, b : a + b, 0, latencies)

\* messages_per_second >= n (0 when elapsed is 0)
MessagesPerSecondAtLeast(n) ==
  IF ELAPSED > 0 THEN messages_sent >= n * ELAPSED ELSE 0 >= n
\* avg_latency <= n (0 for an empty latency list)
AvgLatencyAtMost(n) ==
  IF latencies = <<>> THEN 0 <= n ELSE LatencySum <= n * Len(latencies)
\* errors / max(1, messages_sent) < n / d
ErrorRateBelow(n, d) == errors * d < n * AtLeastOne(messages_sent)
\* connections / max(1, TOTAL_PLAYERS) >= n / d
ConnectionRateAtLeast(n, d) == connections * d >= n * AtLeastOne(TOTAL_PLAYERS)

(***************************************************************************)
(* Scorers.  Each axis earns one of three tiers (1 best); Points gives    *)
(* the points of each tier, so score and max_score are sums over axes.    *)
(***************************************************************************)
TcpAxes == {"throughput", "latency", "connection", "error"}
RudpAxes == {"throughput", "latency", "error"}

TcpPoints == [a \in TcpAxes |-> <<25, 20, 10>>]
RudpPoints == [throughput |-> <<30, 20, 10>>, latency |-> <<30, 20, 10>>,
               error |-> <<40, 25, 10>>]

TcpTiers ==
  [throughput |-> IF MessagesPerSecondAtLeast(5000) THEN 1
                  ELSE IF MessagesPerSecondAtLeast(2000) THEN 2 ELSE 3,
   latency    |-> IF AvgLatencyAtMost(50) THEN 1
                  ELSE IF AvgLatencyAtMost(100) THEN 2 ELSE 3,
   connection |-> IF ConnectionRateAtLeast(9, 10) THEN 1
                  ELSE IF ConnectionRateAtLeast(7, 10) THEN 2 ELSE 3,
   error      |-> IF ErrorRateBelow(1, 1000) THEN 1
                  ELSE IF ErrorRateBelow(1, 100) THEN 2 ELSE 3]

\* Fault variant of RudpTiers: the error-rate test written the wrong way
\* round (error_rate > 0.001 earns the best tier).
RudpTiersErrorFlipped ==
  [throughput |-> IF MessagesPerSecondAtLeast(10000) THEN 1
                  ELSE IF MessagesPerSecondAtLeast(5000) THEN 2 ELSE 3,
   latency    |-> IF AvgLatencyAtMost(50) THEN 1
                  ELSE IF AvgLatencyAtMost(100) THEN 2 ELSE 3,
   error      |-> IF ~ErrorRateBelow(1, 1000) THEN 1
                  ELSE IF ErrorRateBelow(1, 100) THEN 2 ELSE 3]

RudpTiers ==
  [throughput |-> IF MessagesPerSecondAtLeast(10000) THEN 1
                  ELSE IF MessagesPerSecondAtLeast(5000) THEN 2 ELSE 3,
   latency    |-> IF AvgLatencyAtMost(50) THEN 1
                  ELSE IF AvgLatencyAtMost(100) THEN 2 ELSE 3,
   error      |-> IF ErrorRateBelow(1, 1000) THEN 1
                  ELSE IF ErrorRateBelow(1, 100) THEN 2 ELSE 3]

Score(points, tiers) ==
  [score     |-> FoldFunction(LAMBDA a, b : a + b, 0,
                              [a \in DOMAIN points |-> points[a][tiers[a]]]),
   max_score |-> FoldFunction(LAMBDA a, b : a + b, 0,
                              [a \in DOMAIN points |-> points[a][1]])]

\* total_score = score / max_score * 100; >= 80 is A, >= 60 is B.
Grade(s) ==
  IF s.score * 100 >= 80 * s.max_score THEN "A"
  ELSE IF s.score * 100 >= 60 * s.max_score THEN "B" ELSE "C"

TcpGrade == Grade(Score(TcpPoints, TcpTiers))
RudpGrade == Grade(Score(RudpPoints, RudpTiers))

\* print_results() 354: connections / (connections + max(1, connection_errors)),
\* as a numerator and a denominator.
ConnectionSuccessRate ==
  <<connections, connections + AtLeastOne(connection_errors)>>

(***************************************************************************)
(* Properties.                                                             *)
(***************************************************************************)
Rank(g) == CASE g = "A" -> 3 [] g = "B" -> 2 [] g = "C" -> 1

\* The grade follows the outcomes (evaluate_performance, tcp 402-479 and
\* rudp 345-408): recording a sent message or a connection never lowers
\* either grade, and recording an error or a connection error never
\* raises it, from any snapshot, including ones at a tier boundary and
\* ones with no latency sample yet.
GradeFollowsOutcomes ==
  [][/\ (RecordSent \/ RecordConnection)
          => Rank(TcpGrade') >= Rank(TcpGrade) /\ Rank(RudpGrade') >= Rank(RudpGrade)
     /\ (RecordError \/ RecordConnectionError)
          => Rank(TcpGrade') <= Rank(TcpGrade) /\ Rank(RudpGrade') <= Rank(RudpGrade)]_vars

\* The report's connection success rate (print_results 354) is 100% when
\* every connection attempt succeeded.
FullConnectionRate ==
  (connections > 0 /\ connection_errors = 0)
    => ConnectionSuccessRate[1] = ConnectionSuccessRate[2]

=============================================================================
