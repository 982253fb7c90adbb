--------------------------- MODULE MCKktV03Vector ---------------------------
EXTENDS KktV03Vector
=============================================================================
