SPECIFICATION Spec
PROPERTY NoChildAfterStop
