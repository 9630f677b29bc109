--------------------------- MODULE MCPreviewConsole ---------------------------
(* Instances of PreviewConsole for TLC. *)
EXTENDS PreviewConsole

CONSTANTS id1, here, there, Here, There, Typo

\* A duration that outlasts a re-signing, and one the form lets through by mistake.
MCDays == {-1, 2}

\* Two devices and a mistake, as they are typed.
MCTyped == [s \in {Here, There, Typo} |-> IF s = Here THEN here ELSE IF s = There THEN there ELSE BadHwid]

\* A license for any device, and one that the schema refuses; binding makes the others.
MCForms == {{}, {There, Typo}}

\* Now, a second later, and the last second that the skew adds to a license of now.
MCClock == {0, 1, 4}
=============================================================================
