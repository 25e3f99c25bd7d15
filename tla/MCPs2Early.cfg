SPECIFICATION Ps2Spec
CONSTANT QUEUE = 2
PROPERTY InitializedMeansAlive
