------------------------------ MODULE MCOtaBoot ------------------------------
(* OtaBoot for TLC.                                                           *)
EXTENDS OtaBoot

Image(reset) == [mcu |-> TRUE, reset |-> reset]
Other(reset) == [mcu |-> FALSE, reset |-> reset]

\* An image alone, an image that asks for no reset after a file that does, and
\* no image at all.
AnyList == {<<Image(TRUE)>>, <<Other(TRUE), Image(FALSE)>>, <<Other(TRUE)>>}
==============================================================================
