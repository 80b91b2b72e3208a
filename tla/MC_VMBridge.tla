---------------------------- MODULE MC_VMBridge ----------------------------
(***************************************************************************)
(* Instances of VMBridge for TLC: two machines, three OS hostnames.        *)
(***************************************************************************)
EXTENDS VMBridge

CONSTANTS n1, n2, v1, v2, h1, h2, h3

MCNodeVM == (n1 :> v1) @@ (n2 :> v2)

\* n1 may be renamed between h1 and h2; n2 is h3: no hostname is ever
\* carried by two machines.
MCNamesOwn == (n1 :> {h1, h2}) @@ (n2 :> {h3})

\* n2 may come up under a hostname n1 carried before it stopped, as a
\* replacement machine does.
MCNamesReused == (n1 :> {h1, h2}) @@ (n2 :> {h1, h3})
=============================================================================
