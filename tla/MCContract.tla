----------------------------- MODULE MCContract ------------------------------
(***************************************************************************)
(* The data contract on both sides of every boundary, for TLC.             *)
(***************************************************************************)
EXTENDS Contract

Measure(t, p, h) == [temperature |-> t, pressure |-> p, humidity |-> h]

BoundaryMeasures ==
    {Measure(20, 1000, 40), Measure(35, 1030, 80),
     Measure(-50, 800, 0), Measure(150, 1200, 100),
     Measure(-51, 1000, 40), Measure(151, 1000, 40),
     Measure(20, 799, 40), Measure(20, 1201, 40),
     Measure(20, 1000, -1), Measure(20, 1000, 101)}

BoundaryOffsets == {-86401, -86400, -3600, 0, 86400, 86401}

BoundaryNumbers == {-1, 0, 1, 500, 501, 3600, 86401}
=============================================================================
