-------------------------- MODULE MCCredentialSync --------------------------
EXTENDS CredentialSync
=============================================================================
