SPECIFICATION Spec
INVARIANTS TypeOK SuppliedOnce FlagIsLedger
