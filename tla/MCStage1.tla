------------------------------ MODULE MCStage1 ------------------------------
(* The instance TLC checks: two layers of four experts. *)
EXTENDS Stage1

\* The distance matrix with a given value for every pair of experts.
Matrix(a, b, c, d, e, f) ==
    LET of(i, j) == IF i = j THEN 0
                    ELSE CASE {i, j} = {1, 2} -> a [] {i, j} = {1, 3} -> b [] {i, j} = {1, 4} -> c
                           [] {i, j} = {2, 3} -> d [] {i, j} = {2, 4} -> e [] {i, j} = {3, 4} -> f
    IN  [i \in Experts |-> [j \in Experts |-> of(i, j)]]

Flat == Matrix(1, 1, 1, 1, 1, 1)
Steep == Matrix(0, 2, 3, 2, 3, 1)
Skewed == Matrix(3, 1, 2, 1, 2, 0)
Zeros == Matrix(0, 0, 0, 0, 0, 3)

\* Which experts are big, concentrated, fed by the sink, and which hurt.
Signs ==
    { [growth |-> {2}, peak |-> <<<<1, 1, 1, 1>>, <<1, 20, 1, 0>>>>, low |-> <<{1}, {2}>>,
       sinks |-> {<<1, 3>>}, delta |-> <<<<0, 1, 1, 1>>, <<1, 1, 0, 1>>>>],
      [growth |-> {}, peak |-> <<<<5, 5, 0, 2>>, <<1, 1, 1, 1>>>>, low |-> <<{4}, {}>>,
       sinks |-> {}, delta |-> <<<<1, 1, 1, 1>>, <<0, 0, 0, 0>>>>],
      [growth |-> {1, 2}, peak |-> <<<<0, 0, 0, 0>>, <<0, 0, 0, 0>>>>, low |-> <<{}, {}>>,
       sinks |-> {}, delta |-> <<<<1, 1, 1, 1>>, <<1, 1, 1, 1>>>>] }
\* Every expert is fed by the sink.
AllSinks == [growth |-> {}, peak |-> <<<<0, 0, 0, 0>>, <<0, 0, 0, 0>>>>, low |-> <<{}, {}>>,
             sinks |-> Layers \X Experts, delta |-> <<<<1, 1, 1, 1>>, <<1, 1, 1, 1>>>>]

Config(t, r, m, d, k, f, dp, rco) ==
    [target |-> t, ratio |-> r, minExperts |-> m, div |-> d, topK |-> k, filter |-> f,
     dp |-> dp, rco |-> rco]
Stage1Plans ==
    { Config(250, 100, 1, 2, 2, "fixed", FALSE, "auto"), Config(350, 300, 1, 4, 1, "off", TRUE, "off"),
      Config(300, 200, 1, 2, 0, "fixed", TRUE, "auto"), Config(400, 200, 0, 4, 4, "off", FALSE, "off"),
      Config(300, 100, 3, 4, 1, "auto", FALSE, "damage_curve"), Config(100, 50, 4, 2, 4, "auto", FALSE, "off"),
      Config(550, 100, 0, 2, 1, "fixed", FALSE, "off"), Config(600, 100, 0, 4, 1, "off", FALSE, "off") }

Input(p, s, d) ==
    [target |-> p.target, ratio |-> p.ratio, minExperts |-> p.minExperts, div |-> p.div,
     topK |-> p.topK, filter |-> p.filter, dp |-> p.dp, rco |-> p.rco,
     growth |-> s.growth, peak |-> s.peak, low |-> s.low, sinks |-> s.sinks, delta |-> s.delta,
     dist |-> d]
Pairs == {<<Flat, Flat>>, <<Flat, Steep>>, <<Steep, Skewed>>, <<Zeros, Skewed>>}
MCInputs ==
    {Input(p, s, d) : p \in Stage1Plans, s \in Signs, d \in Pairs}
        \cup {Input(p, AllSinks, <<Flat, Steep>>) : p \in Stage1Plans}
=============================================================================
