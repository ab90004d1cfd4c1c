---------------------------- MODULE MCPasswordReset ----------------------------
EXTENDS PasswordReset
=============================================================================
