--------------------------- MODULE MCPrepareImage ---------------------------
(* Instances of PrepareImage for TLC.                                      *)
EXTENDS PrepareImage

CONSTANTS y1, y2, bad, s1, s2

Asks(layers, unit, source, n) ==
    [layers |-> layers, unit |-> unit, source |-> source, len |-> n]

(* One layer, two layers in either order, a bad one at the end; two        *)
(* sources and two lengths, one fetch unit.                                *)
OneUnit ==
    {Asks(<<y1>>, 1, s1, 1), Asks(<<y1, y2>>, 1, s1, 2), Asks(<<y2, y1>>, 1, s2, 1),
     Asks(<<y2, bad>>, 1, s2, 2)}

(* The same layer with another fetch unit.                                 *)
TwoUnits == {Asks(<<y1>>, 1, s1, 1), Asks(<<y1>>, 2, s1, 1)}
=============================================================================
