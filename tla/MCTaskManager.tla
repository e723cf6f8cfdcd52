--------------------------- MODULE MCTaskManager ---------------------------
(***************************************************************************)
(* Instances of TaskManager: a library of three functions, two images of   *)
(* different sizes and two variables (as CloneMagickWand, NewPixelWand and *)
(* MagickColorizeImage of c/lib/ImageMagick/imagemagick.annotation).       *)
(***************************************************************************)
EXTENDS TaskManager, TLC

CONSTANTS clone, color, colorize, img1, img2, x, y

Library == {clone, color, colorize}

Parameters ==
  (clone :> <<"split">>) @@ (color :> <<>>) @@ (colorize :> <<"split", "broadcast">>)

Creators == {clone, color}

Images == {img1, img2}

Sizes == (img1 :> 2) @@ (img2 :> 4)

Wands == [v \in Images |-> "WandSplit"]

Variables == {x, y}

AllRules  == {"handles", "kinds", "emits"}
SomeRules == {"handles", "emits"}

=============================================================================
