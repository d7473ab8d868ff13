------------------------- MODULE ConfigConsistency -------------------------
(***************************************************************************)
(* config_consistency.go: may a container that exists be used for a request *)
(* with some configuration?  Yes, if it has everything that is asked for.    *)
(*                                                                         *)
(* The code compares some sixty fields in six ways.  Here a configuration    *)
(* has one field for each way, in each of its three parts: the fields do not *)
(* influence each other.  Values that are not set are "", << >> or the empty *)
(* function, as in Go; an error is FALSE.                                   *)
(***************************************************************************)
EXTENDS Sequences, Functions

stringSubset(expected, target) == target = "" \/ target = expected

\* Mutant of sliceSubset: the order and the number of items count.
sliceSubsetPrefix(expected, target) ==
  Len(target) <= Len(expected) /\ target = SubSeq(expected, 1, Len(target))

sliceSubset(expected, target) ==
  \/ target = << >>
  \/ expected # << >> /\ Range(target) \subseteq Range(expected)

sequentialSubset(expected, target) ==
  \/ target = << >>
  \/ expected # << >> /\ expected = target

mapSubset(expected, target) ==
  \/ DOMAIN target = {}
  \/ /\ DOMAIN expected # {}
     /\ \A k \in DOMAIN target :
          k \in DOMAIN expected /\ expected[k] = target[k]

pointerSubset(expected, target) ==
  \/ target = ""
  \/ expected # "" /\ expected = target

equals(expected, target) == expected = target

checkContainerConfig(expected, target) ==
  /\ stringSubset(expected.string, target.string)
  /\ mapSubset(expected.map, target.map)
  /\ sliceSubset(expected.slice, target.slice)
  /\ sequentialSubset(expected.sequence, target.sequence)
  /\ pointerSubset(expected.pointer, target.pointer)
  /\ equals(expected.equal, target.equal)

checkHostConfig(expected, target) ==
  /\ sliceSubset(expected.slice, target.slice)
  /\ stringSubset(expected.string, target.string)
  /\ equals(expected.equal, target.equal)
  /\ mapSubset(expected.map, target.map)

\* Networks that the container does not have are left out.
checkEndpointSettings(expected, target) ==
  \A n \in DOMAIN target \cap DOMAIN expected :
    /\ pointerSubset(expected[n].pointer, target[n].pointer)
    /\ sliceSubset(expected[n].slice, target[n].slice)
    /\ equals(expected[n].equal, target[n].equal)
    /\ stringSubset(expected[n].string, target[n].string)
    /\ mapSubset(expected[n].map, target[n].map)

\* Configuration asked for, and that of the container.
checkConfigConsistency(asked, has) ==
  /\ checkContainerConfig(has.container, asked.container)
  /\ checkHostConfig(has.host, asked.host)
  /\ checkEndpointSettings(has.networks, asked.networks)

-----------------------------------------------------------------------------
(* The types of the three parts; of a slice it matters that it is one.       *)

IsPart(part, fields) == DOMAIN part = fields /\ part.slice \in Seq(STRING)

IsContainer(part) ==
  IsPart(part, {"string", "map", "slice", "sequence", "pointer", "equal"})

IsHost(part) == IsPart(part, {"slice", "string", "equal", "map"})

IsConfig(config) ==
  /\ DOMAIN config = {"container", "host", "networks"}
  /\ IsContainer(config.container) /\ IsHost(config.host)
  /\ \A n \in DOMAIN config.networks :
       IsPart(config.networks[n], {"pointer", "slice", "equal", "string", "map"})

-----------------------------------------------------------------------------
(* What Docker makes of a configuration: the image, or the daemon, sets what *)
(* is not set, and adds to slices and maps.                                  *)

Unset(f) == IF f = "sequence" THEN << >> ELSE ""

Filled(part, default) ==
  [f \in DOMAIN part |->
     CASE f = "slice" -> part[f] \o default[f]
       [] f = "map" -> [k \in DOMAIN part[f] \cup DOMAIN default[f] |->
                          IF k \in DOMAIN part[f] THEN part[f][k]
                          ELSE default[f][k]]
       [] OTHER -> IF part[f] = Unset(f) THEN default[f] ELSE part[f]]

Created(config, image) ==
  [config EXCEPT !.container = Filled(@, image.container),
                 !.host = Filled(@, image.host)]

-----------------------------------------------------------------------------
(* The reference: the statements that a configuration makes, as a set.       *)

Items(f, value) ==
  CASE f = "slice" -> Range(value)
    [] f = "map" -> {<<k, value[k]>> : k \in DOMAIN value}
    [] f = "equal" -> {value}
    [] OTHER -> IF value = Unset(f) THEN {} ELSE {value}

Facts(part) == UNION {{<<f, i>> : i \in Items(f, part[f])} : f \in DOMAIN part}

Contained(asked, has) ==
  /\ Facts(asked.container) \subseteq Facts(has.container)
  /\ Facts(asked.host) \subseteq Facts(has.host)
  /\ \A n \in DOMAIN asked.networks \cap DOMAIN has.networks :
       Facts(asked.networks[n]) \subseteq Facts(has.networks[n])
=============================================================================
