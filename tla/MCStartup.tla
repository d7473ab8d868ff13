----------------------------- MODULE MCStartup -----------------------------
(* Startup for TLC: configurations that differ in one field at a time.       *)
EXTENDS Startup, TLC

CONSTANTS i1, i2

Twice == (i1 :> 2) @@ (i2 :> 1)

Empty == << >>

Container0 == [string |-> "", map |-> Empty, slice |-> << >>,
               sequence |-> << >>, pointer |-> "", equal |-> ""]

Host0 == [string |-> "", map |-> Empty, slice |-> << >>, equal |-> ""]

Endpoint0 == [string |-> "", map |-> Empty, slice |-> << >>,
              pointer |-> "", equal |-> ""]

Values(f) ==
  CASE f = "map" -> {Empty, "a" :> "x", "a" :> "y", "a" :> "x" @@ "b" :> "x"}
    [] f \in {"slice", "sequence"} ->
         {<< >>, <<"a">>, <<"a", "b">>, <<"b", "a">>}
    [] OTHER -> {"", "x", "y"}

Default(f) == CASE f = "map" -> "b" :> "x" @@ "c" :> "x"
                [] f \in {"slice", "sequence"} -> <<"b">>
                [] OTHER -> "x"

Config(c, h, e) == [container |-> c, host |-> h, networks |-> e]

\* Two configurations whose part differs at most in field f.
Pairs(part, f) ==
  {<<[part EXCEPT ![f] = v], [part EXCEPT ![f] = w]>> :
     v \in Values(f), w \in Values(f)}

\* An image that sets one field of a container, and one that sets none.
Image(f) == {Container0, [Container0 EXCEPT ![f] = Default(f)]}

Sample(one, two, image) ==
  [first |-> one, asked |-> two, image |-> [container |-> image, host |-> Host0],
   check |-> TRUE]

ContainerSamples ==
  UNION {{Sample(Config(pair[1], Host0, << >>), Config(pair[2], Host0, << >>), i) :
            pair \in Pairs(Container0, f), i \in Image(f)} : f \in DOMAIN Container0}

HostSamples ==
  UNION {{Sample(Config(Container0, pair[1], << >>),
                 Config(Container0, pair[2], << >>), Container0) :
            pair \in Pairs(Host0, f)} : f \in DOMAIN Host0}

\* The one asked for has a network that the first one does not have.
EndpointSamples ==
  UNION {{Sample(Config(Container0, Host0, [n |-> pair[1]]),
                 Config(Container0, Host0, [n |-> pair[2], m |-> pair[2]]),
                 Container0) :
            pair \in Pairs(Endpoint0, f)} : f \in DOMAIN Endpoint0}

Unchecked == {[s EXCEPT !.check = FALSE] : 
                 s \in {h \in HostSamples : h.first.host.string # ""}}

Samples == ContainerSamples \cup HostSamples \cup EndpointSamples \cup Unchecked
=============================================================================
