------------------------------ MODULE MCKktV02 ------------------------------
EXTENDS KktV02
=============================================================================
