--------------------------- MODULE MCUpgradeStream ---------------------------
(* Instance of UpgradeStream for TLC: headers on both sides of the limit.   *)
EXTENDS UpgradeStream

TheRequest == <<Path, CR, LF, CR, LF>>

(* One that fits exactly, one of lines that end in LF, one too long, and    *)
(* one without the path.                                                    *)
SomeForwards == {<<Path, CR, LF, Other, LF, LF>>, <<Path, CR, LF, Other, CR, LF, LF>>,
                 <<Other, LF, Path, LF, CR, LF>>, <<Other, LF, LF>>}
SomeAnswers == {<<Other, LF, CR, LF>>, <<Other, CR, LF, Other, LF, CR, LF>>,
                <<Other, CR, LF, Other, CR, LF, CR, LF>>}
=============================================================================
