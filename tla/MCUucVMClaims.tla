--------------------------- MODULE MCUucVMClaims ----------------------------
EXTENDS UucVMClaims, MCUucPrograms

MCKeys == DOMAIN NameHash
=============================================================================
