--------------------------- MODULE MCSampleFilter ---------------------------
(***************************************************************************)
(* Values for the constants of SampleFilter.                               *)
(***************************************************************************)
EXTENDS SampleFilter, TLC

CONSTANTS t1, t2, t3, m1, m2

Scrapes3 == {t1, t2, t3}
Metrics  == {m1, m2}

Rule1(ns, action) == [matches |-> ns, action |-> action, resolution |-> 0,
                      amplitude |-> 0, quantum |-> 1]
KeepOnly(ns)         == Rule1(ns, "keep")
DropAll(ns)          == Rule1(ns, "drop")
Reduce(ns, duration) == [Rule1(ns, "reduce") EXCEPT !.resolution = duration]
Noise(ns, a, q)      == [Rule1(ns, "noise") EXCEPT !.amplitude = a, !.quantum = q]

Setup(ruleLists, serves, timeout, uptime, until) ==
    {[rules |-> rs, serves |-> serves, timeout |-> timeout, uptime |-> uptime,
      until |-> until] : rs \in ruleLists}

\* Verdicts that override each other; the README's example; a metric that is
\* looked up in the store and then dropped; a filter that cannot draw, on a metric
\* that the backend does not always have.
VerdictRules == {
    <<DropAll(Metrics), Reduce({m1}, 2), KeepOnly({m1})>>,
    <<KeepOnly(Metrics), DropAll({m2}), KeepOnly({m2}), Reduce(Metrics, 1)>>,
    <<Reduce(Metrics, 2), DropAll({m2})>>,
    <<Noise({m2}, 0, 1), Reduce(Metrics, 1)>> }
AnyMetrics == {<<m1, m2>>, <<m2, m1>>, <<m2>>, <<m1>>}

\* One resolution, after the noise, before it, and without any; an amplitude that
\* is no multiple of the quantum.
NoiseRules == {
    <<Noise({m1}, 2, 2), Reduce({m1}, 2)>>,
    <<Reduce({m1}, 2), Noise({m1}, 2, 2)>>,
    <<Noise({m1}, 7, 4)>> }
OneMetric == {<<m1>>}

\* Scrapes that overtake each other, with a timeout below, at and above the
\* resolution; and a machine that has just been started.
AllSetups ==
    Setup(VerdictRules, AnyMetrics, 0, 2, 3) \union
    Setup(NoiseRules, OneMetric, 0, 2, 6) \union
    Setup({<<Reduce({m1}, 2)>>}, OneMetric, 2, 2, 6) \union
    Setup({<<Reduce({m1}, 2)>>, <<Reduce({m1}, 3)>>}, OneMetric, 1, 1, 5)

\* Two filters that reduce the time resolution of one metric.
TwoResolutions == Setup({<<Reduce({m1}, 2), Reduce({m1}, 1)>>,
                         <<Reduce({m1}, 1), Reduce({m1}, 2)>>}, OneMetric, 0, 2, 5)

Symmetry == Permutations(Scrapes3)
=============================================================================
