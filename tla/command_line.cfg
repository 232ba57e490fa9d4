SPECIFICATION VolumeSpec
CONSTANTS
    CommandLines <- MCCommandLines
    Words = {"host", "564", "/BAD", ""}
INVARIANTS ConfigurationTypeOK ConfiguredAsGiven NoChangeAcknowledged
