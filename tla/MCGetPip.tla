------------------------------ MODULE MCGetPip ------------------------------
(* TLC's instance of GetPip, and of the decoder its zip file goes through. *)
EXTENDS GetPip, SequencesExt, TLC

CONSTANT MaxLen   \* bound on the length of Texts

MCContents == BoundedSeq(Bytes, Word * (MaxLen \div Group))
MCTexts    == BoundedSeq(Digits \cup {Bad}, MaxLen)

ASSUME ErrorsAreNamed == FirstError

R(n, p, s) == [name |-> n, pkg |-> p, spec |-> s]

MCReq == [t \in Pkgs \cup {"pip<8", "--log wheel"} |->
            CASE t = "pip<8" -> R("pip", "pip", "<8")
              [] t = "--log wheel" -> R("wheel", "none", "any")
              [] OTHER -> R(t, t, "any")]

(* Nothing; an option of pip, both of the script's own, and a package that *)
(* they decline; two packages, one with a version, and an option whose     *)
(* value is called like the third one; the same package twice.             *)
MCLines == {{}, {"--user", "--no-setuptools", "--no-wheel", "wheel"},
            {"setuptools", "pip<8", "--log wheel"}, {"pip", "pip<8"}}
MCEnvs  == {{}, {"wheel"}}

Symmetry == Permutations(Runs)
=============================================================================
