------------------------------- MODULE MCNames -------------------------------
(* Instances of Names for TLC. *)
EXTENDS Names

(* A name with blanks at some places, before, inside and behind it: from   *)
(* none, where it is too long, to all.                                     *)
Letters == <<"a", "b", "c", "d", "e", "f">>

Spaced(shown) == [k \in 1 .. StrLen |-> IF k \in shown THEN Letters[k] ELSE Blank]

NameFields ==
    {Spaced(shown) : shown \in SUBSET {1, 3, 4}}
      \cup {<<"a", Nul, "c", Blank, Blank, Blank>>,
            <<Nul, Nul, Nul, Nul, Nul, Nul>>}

(* Messages that fill their string, end in blanks, or have a NUL in them.  *)
TextFields ==
    {<<"x", "y", "z", "x", "y", "z">>,
     <<"x", Blank, "z", Blank, Blank, Blank>>,
     <<"x", Nul, "z", Blank, Blank, Blank>>,
     <<Blank, Blank, Blank, Blank, Blank, Blank>>}
=============================================================================
