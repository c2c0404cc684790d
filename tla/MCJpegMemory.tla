---------------------------- MODULE MCJpegMemory ----------------------------
(* Two sample arrays of one and two rows, or a coefficient array of three   *)
(* rows accessed two by two, with little memory, with more, or unlimited.   *)
EXTENDS JpegMemory, TLC

MCSArrays == {"s", "t"}
MCBArrays == {"b"}
MCRowsInArray == "s" :> 1 @@ "t" :> 2 @@ "b" :> 3
MCMaxAccess == "s" :> 1 @@ "t" :> 1 @@ "b" :> 2
MCRowSize == "s" :> 4 @@ "t" :> 3 @@ "b" :> 6
MCPreZero == "s" :> FALSE @@ "t" :> FALSE @@ "b" :> TRUE
MCFirstSlop == PERMANENT :> 5 @@ IMAGE :> 8
MCExtraSlop == PERMANENT :> 0 @@ IMAGE :> 4
MCValues == {0, 1, -1}
MCSettings == {0, 36, -1}
MCJunk == -1
MCNone == -1
MCUndefined == -2
=============================================================================
