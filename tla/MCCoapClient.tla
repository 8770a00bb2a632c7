---------------------------- MODULE MCCoapClient ----------------------------
\* Instances of CoapClient for TLC: its .cfg files give every constant.
EXTENDS CoapClient
=============================================================================
