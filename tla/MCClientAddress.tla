--------------------------- MODULE MCClientAddress ---------------------------
EXTENDS ClientAddress

=============================================================================
