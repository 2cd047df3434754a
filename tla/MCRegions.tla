------------------------------ MODULE MCRegions ------------------------------
(* Frames 40 by 24 with one and two cars; and with a tall one at either side, further apart than *)
(* the frame is high.                                                                            *)
EXTENDS Regions

Car(x, y) == <<x, y, x + 6, y + 4>>
MCScene == {{Car(1, 1)}, {Car(2, 3), Car(13, 5)}, {Car(16, 10), Car(25, 10)},
            {Car(30, 2), Car(29, 12)}, {<<0, 0, 7, 23>>, <<32, 0, 39, 23>>}}
===============================================================================
