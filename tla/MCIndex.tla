------------------------------- MODULE MCIndex -------------------------------
(* Index on small instances: i1 is a folder with an alias in each of two      *)
(* groups, i2 a plain file whose category depends on its content.             *)
EXTENDS Index

CONSTANTS i1, i2, c1, c2, m1, d1, d2

MCShownIn == [x \in Items \X Stamps |->
                IF x[1] = i1 THEN {c1, c2}
                ELSE IF x[2] % 2 = 0 THEN {c1} ELSE {c2}]
=============================================================================
