---------------------------- MODULE MCResponders ----------------------------
EXTENDS Responders

\* The zero value a handler may pass (an unset error code) and two real ones.
MCCodes == {0, 201, 403}

=============================================================================
