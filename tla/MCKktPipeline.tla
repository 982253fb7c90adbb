---------------------------- MODULE MCKktPipeline ----------------------------
EXTENDS KktPipeline
=============================================================================
