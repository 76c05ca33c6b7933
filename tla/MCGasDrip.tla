------------------------------ MODULE MCGasDrip ------------------------------
EXTENDS GasDrip, MCDepositAddresses

CONSTANTS i1, i2
===============================================================================
